---- MODULE Spec2Model ----
(***************************************************************************)
(* Command-protocol and actuation core of the JarvisM5 firmware: the line  *)
(* transports (SerialClient, BTClient), the JSON dispatcher (handleJson_), *)
(* the servo tracking controller (ServoController), the UI mode switch     *)
(* (setUIMode), the energy coordinator (EnergyManager) and the main loop.  *)
(*                                                                         *)
(* Numbers.  Angles, gains, smoothing factors, dead zones and trims are    *)
(* floats (IEEE-754 binary32), as in the source, and every operation on    *)
(* them is rounded as the float operation is.  Where the source writes a   *)
(* product added to a third value the compiler may contract the two into   *)
(* one fused multiply-add, rounded once; which of the two the build does   *)
(* is fixed for a run and open from run to run.  millis() is a 32-bit      *)
(* counter, held as two 16-bit limbs [hi, lo] so that its arithmetic is    *)
(* modulo 2^32.  Bytes are their ASCII codes.                              *)
(***************************************************************************)
EXTENDS Integers, Sequences, FiniteSets, TLC

VARIABLES
  variant,      \* the line client of the run: "serial", the firmware of main.cpp with
                \* its SerialClient; "bt", a BTClient driven by itself
  contract,     \* the build: whether x * y + z is one fused multiply-add
  pc,           \* "off": reset, setup() not yet run; "run": loop() is being called
  now,          \* millis() at the last executed statement
  servo,        \* ServoController: cfg, curYawDeg, curPitchDeg, LEDC duties
  client,       \* SerialClient / BTClient: line_, lastRecv_, lastHello_
  ui,           \* main.cpp statics: uiMode, loggerReady, frame timers
  logger,       \* Logger: screen, autoPush, created, serial
  disp,         \* M5.Display: brightness, asleep
  overlay,      \* Overlay: time_, weather_, text_, textVisible_, lastTextMs_
  expr,         \* FaceExpression selected by Emotion::handle
  energy,       \* EnergyManager: lastActivity_, screenDimmed_
  menu,         \* Menu.visible and ButtonsManager.bPressTime
  sent,         \* history: payloads of the hello events sent since the last reset
  trace,        \* history: what the last setup() or loop() call did, in order
  rxTick,       \* history: the bytes the last loop() call found in the receive queue
  uptime,       \* history: milliseconds since the last reset
  sinceMark,    \* history: milliseconds since lastRecv_ was written, or else since the reset
  sinceByte,    \* history: milliseconds since the last byte was read (-1: never)
  sinceHello,   \* history: milliseconds since the last hello event was sent (-1: never)
  helloGap,     \* history: milliseconds between the last two hello events (-1: fewer than two)
  restarts,     \* history: ESP.restart() calls since the last byte was read
  ops           \* history: number of ServoController calls made through its API

vars == <<variant, contract, pc, now, servo, client, ui, logger, disp, overlay, expr, energy,
          menu, sent, trace, rxTick, uptime, sinceMark, sinceByte, sinceHello,
          helloGap, restarts, ops>>

-----------------------------------------------------------------------------
(* uint32_t arithmetic on millis() values                                  *)

W16 == 2^16

\* the uint32_t with value n, 0 <= n < 2^31
U32(n) == [hi |-> n \div W16, lo |-> n % W16]

\* a + d modulo 2^32, for 0 <= d < 2^31
Add32(a, d) ==
  LET lo == a.lo + (d % W16)
      hi == a.hi + (d \div W16) + (lo \div W16)
  IN  [hi |-> hi % W16, lo |-> lo % W16]

\* a subtraction that stops at 0 instead of wrapping, which uint32_t's does not
Sub32Clamped(a, b) ==
  IF a.hi < b.hi \/ (a.hi = b.hi /\ a.lo < b.lo) THEN [hi |-> 0, lo |-> 0]
  ELSE LET borrow == IF a.lo < b.lo THEN 1 ELSE 0
       IN  [hi |-> a.hi - b.hi - borrow, lo |-> (a.lo - b.lo) % W16]

\* a - b modulo 2^32 (uint32_t subtraction)
Sub32(a, b) ==
  LET borrow == IF a.lo < b.lo THEN 1 ELSE 0
  IN  [hi |-> (a.hi - b.hi - borrow) % W16, lo |-> (a.lo - b.lo) % W16]

\* comparisons of a uint32_t with a constant k, 0 <= k < 2^16
Gt32(a, k) == a.hi > 0 \/ a.lo > k
Lt32(a, k) == a.hi = 0 /\ a.lo < k
Ge32(a, k) == ~Lt32(a, k)

-----------------------------------------------------------------------------
(* Program constants                                                       *)

LineLimit == 1024
HelloPeriodMs == 2000
WatchdogMs == 5000
RecentInputMs == 3000
DISPLAY_TIMEOUT_MS == 30000
SLEEP_TIMEOUT_MS == 60000
LightSleepMs == 5000
FullBrightness == 20
DimBrightness == 5
LONG_PRESS_MS == 1000
TEXT_DISPLAY_TIMEOUT == 5000
FrameIntervalMs == 100
BeginDelayMs == 50
PulseFloorUs == 500
PulseCeilUs == 2500
dutyMax == 65535
periodUs == 20000
LF == 10
CR == 13

-----------------------------------------------------------------------------
(* float: IEEE-754 binary32 values and the operations the source applies   *)
(* to them, each rounded to nearest, ties to even.  A value is m * 2^e     *)
(* with 2^23 <= |m| < 2^24, or m = 0 and e = 0.  The values the program    *)
(* computes stay far from the subnormal range, infinity and NaN.           *)

Pow2(k) == 2^k

\* the float 0.0f
FZero == [m |-> 0, e |-> 0]

\* the number of binary digits of n, 0 < n < 2^30
BitLen(n) == CHOOSE k \in 1..30 : Pow2(k - 1) <= n /\ (k = 30 \/ n < Pow2(k))

\* round to nearest, ties to even: whether the kept digits q go up by one,
\* given the dropped digits rem out of 2 * half and whether more follows them
RoundsUp(q, rem, half, sticky) ==
  rem > half \/ (rem = half /\ (sticky \/ q % 2 = 1))

\* sg * q * 2^e, or the next mantissa up, as a float
Packed(sg, q, e, up) ==
  IF up /\ q + 1 = Pow2(24) THEN [m |-> sg * Pow2(23), e |-> e + 1]
  ELSE [m |-> sg * (IF up THEN q + 1 ELSE q), e |-> e]

\* RoundPack for a magnitude of 24 + k digits
RoundAt(sg, M, e, sticky, k) ==
  IF k <= 0 THEN [m |-> sg * M * Pow2(-k), e |-> e + k]
  ELSE Packed(sg, M \div Pow2(k), e + k,
              RoundsUp(M \div Pow2(k), M % Pow2(k), Pow2(k - 1), sticky))

\* the float nearest to +-(M * 2^e + r), ties to the even mantissa, where
\* 0 <= M < 2^30 and 0 <= r < 2^e, r > 0 exactly when sticky
RoundPack(neg, M, e, sticky) ==
  IF M = 0 THEN FZero
  ELSE RoundAt(IF neg THEN -1 ELSE 1, M, e, sticky, BitLen(M) - 24)

FMag(x) == IF x.m < 0 THEN -x.m ELSE x.m

\* (float)n for an integer n, |n| < 2^30
FromInt(n) == RoundPack(n < 0, IF n < 0 THEN -n ELSE n, 0, FALSE)

\* -x and fabsf(x)
FNeg(x) == [x EXCEPT !.m = -x.m]
fabsf(x) == [x EXCEPT !.m = FMag(x)]

\* x < y and x <= y
FLt(x, y) ==
  IF x.m = 0 \/ y.m = 0 \/ ((x.m < 0) # (y.m < 0)) THEN x.m < y.m
  ELSE IF x.m > 0 THEN x.e < y.e \/ (x.e = y.e /\ x.m < y.m)
  ELSE x.e > y.e \/ (x.e = y.e /\ x.m < y.m)
FLe(x, y) == ~FLt(y, x)

\* a magnitude shifted right by d digits; digits that fall off set the last one
ShiftedRight(S, d) ==
  IF d > 27 THEN 1
  ELSE IF S % Pow2(d) # 0 /\ (S \div Pow2(d)) % 2 = 0 THEN (S \div Pow2(d)) + 1
  ELSE S \div Pow2(d)

\* the float nearest to sum * 2^e
PackSigned(sum, e) == RoundPack(sum < 0, IF sum < 0 THEN -sum ELSE sum, e, FALSE)

\* big + small for big.e >= small.e, both nonzero: the smaller operand is
\* aligned under three guard digits
AddAligned(big, small) ==
  PackSigned((IF big.m < 0 THEN -1 ELSE 1) * FMag(big) * 8
               + (IF small.m < 0 THEN -1 ELSE 1)
                   * ShiftedRight(FMag(small) * 8, big.e - small.e),
             big.e - 3)

\* x + y
FAdd(x, y) ==
  IF x.m = 0 THEN y
  ELSE IF y.m = 0 THEN x
  ELSE IF x.e >= y.e THEN AddAligned(x, y)
  ELSE AddAligned(y, x)

\* x - y
FSub(x, y) == FAdd(x, FNeg(y))

\* the float nearest to +-(hi * 2^24 + low) * 2^e, low < 2^25
MulPack(neg, hi, low, e) ==
  RoundPack(neg, (hi + low \div Pow2(24)) * 64 + ((low % Pow2(24)) \div Pow2(18)),
            e + 18, low % Pow2(18) # 0)

\* the 48-bit product of two mantissas from their 12-bit halves:
\* hh * 2^24 + mid * 2^12 + ll
MulHalves(neg, hh, mid, ll, e) ==
  MulPack(neg, hh + mid \div 4096, ll + (mid % 4096) * 4096, e)

\* A * B * 2^e for mantissas A and B
MulMags(neg, A, B, e) ==
  MulHalves(neg, (A \div 4096) * (B \div 4096),
            (A \div 4096) * (B % 4096) + (A % 4096) * (B \div 4096),
            (A % 4096) * (B % 4096), e)

\* x * y
FMul(x, y) ==
  IF x.m = 0 \/ y.m = 0 THEN FZero
  ELSE MulMags((x.m < 0) # (y.m < 0), FMag(x), FMag(y), x.e + y.e)

\* Numbers too wide for one machine word are four digits to the base 2^24,
\* the least significant first.  Digit i of X, 0 outside it
Digit(X, i) == IF i \in 1..4 THEN X[i] ELSE 0

\* X * 2^k for 0 <= k < 72, X * 2^k < 2^96
WideShl(X, k) ==
  [i \in 1..4 |->
     (Digit(X, i - k \div 24) % Pow2(24 - (k % 24))) * Pow2(k % 24)
       + Digit(X, i - 1 - k \div 24) \div Pow2(24 - (k % 24))]

\* the carry out of digit i of X + Y, and X + Y
RECURSIVE WideCarry(_, _, _)
WideCarry(X, Y, i) ==
  IF i = 0 THEN 0 ELSE (X[i] + Y[i] + WideCarry(X, Y, i - 1)) \div Pow2(24)
WideAdd(X, Y) ==
  [i \in 1..4 |-> (X[i] + Y[i] + WideCarry(X, Y, i - 1)) % Pow2(24)]

\* the borrow out of digit i of X - Y, and X - Y for X >= Y
RECURSIVE WideBorrow(_, _, _)
WideBorrow(X, Y, i) ==
  IF i = 0 THEN 0
  ELSE IF X[i] - Y[i] - WideBorrow(X, Y, i - 1) < 0 THEN 1 ELSE 0
WideSub(X, Y) ==
  [i \in 1..4 |-> (X[i] - Y[i] - WideBorrow(X, Y, i - 1)) % Pow2(24)]

\* the float nearest to +-(top * 2^24 + below + r) * 2^e with 0 < top < 2^24,
\* 0 <= below < 2^24 and 0 <= r < 1, r > 0 exactly when sticky: the leading
\* s digits of below are put under top
RoundPair(neg, top, below, e, sticky, s) ==
  RoundPack(neg, top * Pow2(s) + below \div Pow2(24 - s), e + 24 - s,
            sticky \/ below % Pow2(24 - s) # 0)

\* the float nearest to +-X * 2^e whose leading digit is digit h
RoundDigits(neg, X, e, h) ==
  IF h = 1 THEN RoundPack(neg, X[1], e, FALSE)
  ELSE RoundPair(neg, X[h], X[h - 1], e + 24 * (h - 2),
                 \E i \in 1..(h - 2) : X[i] # 0,
                 IF BitLen(X[h]) <= 6 THEN 24 ELSE 30 - BitLen(X[h]))

\* the float nearest to +-X * 2^e
RoundWide(neg, X, e) ==
  IF \A i \in 1..4 : X[i] = 0 THEN FZero
  ELSE RoundDigits(neg, X, e, CHOOSE h \in 1..4 : X[h] # 0 /\ \A i \in (h + 1)..4 : X[i] = 0)

\* +-P +-C, both in units of 2^e; P < C exactly when P - C borrows
WideSum(pneg, P, cneg, C, e) ==
  IF pneg = cneg THEN RoundWide(pneg, WideAdd(P, C), e)
  ELSE IF WideBorrow(P, C, 4) = 1 THEN RoundWide(cneg, WideSub(C, P), e)
  ELSE RoundWide(pneg, WideSub(P, C), e)

\* +-(ph * 2^24 + pl) * 2^pe +- C * 2^ce rounded once: the exact sum where
\* the two overlap, and where one lies wholly beneath the other's last
\* digits it only decides the rounding
FmaSum(pneg, ph, pl, pe, cneg, C, ce) ==
  IF ce - pe >= 50
  THEN RoundPack(cneg, IF pneg = cneg THEN C * 4 ELSE C * 4 - 1, ce - 2, TRUE)
  ELSE IF ce - pe <= -27
  THEN RoundPack(pneg,
                 ph * 32 + pl \div Pow2(19)
                   - (IF pneg # cneg /\ pl % Pow2(19) = 0 THEN 1 ELSE 0),
                 pe + 19, TRUE)
  ELSE IF ce >= pe
  THEN WideSum(pneg, <<pl, ph, 0, 0>>, cneg, WideShl(<<C, 0, 0, 0>>, ce - pe), pe)
  ELSE WideSum(pneg, WideShl(<<pl, ph, 0, 0>>, pe - ce), cneg, <<C, 0, 0, 0>>, ce)

\* the product hh * 2^24 + mid * 2^12 + ll as two digits, then the sum
FmaHalves(pneg, hh, mid, ll, pe, cneg, C, ce) ==
  FmaSum(pneg,
         hh + mid \div 4096 + (ll + (mid % 4096) * 4096) \div Pow2(24),
         (ll + (mid % 4096) * 4096) % Pow2(24),
         pe, cneg, C, ce)

FmaMags(pneg, A, B, pe, cneg, C, ce) ==
  FmaHalves(pneg, (A \div 4096) * (B \div 4096),
            (A \div 4096) * (B % 4096) + (A % 4096) * (B \div 4096),
            (A % 4096) * (B % 4096), pe, cneg, C, ce)

\* fmaf(x, y, z): x * y + z with the exact product, rounded once
fmaf(x, y, z) ==
  IF x.m = 0 \/ y.m = 0 THEN z
  ELSE IF z.m = 0 THEN FMul(x, y)
  ELSE FmaMags((x.m < 0) # (y.m < 0), FMag(x), FMag(y), x.e + y.e,
               z.m < 0, FMag(z), z.e)

\* n more binary digits of the quotient q, remainder r, of a division by B,
\* then the float nearest to the quotient times 2^e
RECURSIVE DivDigits(_, _, _, _, _, _)
DivDigits(neg, q, r, B, n, e) ==
  IF n = 0 THEN RoundPack(neg, q, e, r # 0)
  ELSE IF 2 * r >= B THEN DivDigits(neg, 2 * q + 1, 2 * r - B, B, n - 1, e)
  ELSE DivDigits(neg, 2 * q, 2 * r, B, n - 1, e)

\* x / y, y # 0
FDiv(x, y) ==
  IF x.m = 0 THEN FZero
  ELSE DivDigits((x.m < 0) # (y.m < 0), FMag(x) \div FMag(y), FMag(x) % FMag(y),
                 FMag(y), 26, x.e - y.e - 26)

\* the integer part of x (what a cast to an integer type keeps), |x| < 2^30
FTrunc(x) ==
  IF x.e >= 0 THEN x.m * Pow2(x.e)
  ELSE IF -x.e > 24 THEN 0
  ELSE (IF x.m < 0 THEN -1 ELSE 1) * (FMag(x) \div Pow2(-x.e))

\* the float a decimal literal num/den denotes: the float nearest to it
F32(num, den) == FDiv(FromInt(num), FromInt(den))

\* d degrees, d a whole number
Deg(d) == FromInt(d)

-----------------------------------------------------------------------------
(* ServoController                                                         *)

\* Arduino's constrain(amt, low, high) macro, on integers and on floats
constrain(amt, low, high) ==
  IF amt < low THEN low ELSE IF amt > high THEN high ELSE amt
constrainf(amt, low, high) ==
  IF FLt(amt, low) THEN low ELSE IF FLt(high, amt) THEN high ELSE amt

\* ServoController::Tuning with its default member initializers
DefaultTuning ==
  [ kpYawDegPerPx |-> F32(6, 100),  kpPitchDegPerPx |-> F32(10, 100),
    smoothYaw |-> F32(25, 100),     smoothPitch |-> F32(25, 100),
    deadzoneYawPx |-> FromInt(10),  deadzonePitchPx |-> FromInt(10),
    invertYaw |-> TRUE,    invertPitch |-> FALSE,
    yawMinDeg |-> Deg(-70),   yawMaxDeg |-> Deg(70),
    pitchMinDeg |-> Deg(-65), pitchMaxDeg |-> Deg(65),
    trimYawDeg |-> FZero,  trimPitchDeg |-> FZero,
    minPulseUs |-> 1000,   maxPulseUs |-> 2000 ]

\* the tuning setup() installs
SetupTuning == [DefaultTuning EXCEPT !.minPulseUs = 500, !.maxPulseUs = 2400]

\* a ServoController as constructed; the LEDC channels hold duty 0 until written.
\* pulseYawUs and pulsePitchUs record the pulse widths _applyAngles last computed.
ServoConstructed ==
  [ cfg |-> DefaultTuning, curYawDeg |-> FZero, curPitchDeg |-> FZero,
    dutyYaw |-> 0, dutyPitch |-> 0, pulseYawUs |-> 0, pulsePitchUs |-> 0 ]

\* What (uint32_t)f yields for a float f whose truncation is negative.  The
\* conversion is undefined there; the outcomes a build can produce are the
\* two's-complement wrap, saturation to 0 and saturation to 0xFFFFFFFF.
NegCastOutcomes == {"wrap", "zero", "max"}

\* minPulseUs + (uint32_t)((maxPulseUs - minPulseUs) * (a180 / 180.0f)) as a
\* uint32_t: the difference of the two uint16_t is an int, converted to float
\* for the product.  A result of 2^31 or more is returned as -1: every such
\* value is above PulseCeilUs, which is all the following constrain() reads.
RawPulseUs(cfg, a180, ub) ==
  LET t == FTrunc(FMul(FromInt(cfg.maxPulseUs - cfg.minPulseUs),
                       FDiv(a180, Deg(180))))
      r == IF t >= 0 THEN cfg.minPulseUs + t
           ELSE IF ub = "zero" THEN cfg.minPulseUs
           ELSE IF ub = "wrap" THEN cfg.minPulseUs + t
           ELSE cfg.minPulseUs - 1
  IN  IF r < 0 THEN -1 ELSE r

\* the pulse without the safety clamp, which the code applies
PulseUnclamped(raw) == raw

\* constrain(pulse, (uint32_t)500, (uint32_t)2500) on the value RawPulseUs returns
ConstrainPulse(raw) ==
  IF raw = -1 THEN PulseCeilUs ELSE constrain(raw, PulseFloorUs, PulseCeilUs)

_angleToPulseUs(cfg, angleDeg, ub) ==
  LET a180 == constrainf(FAdd(angleDeg, Deg(90)), FZero, Deg(180))
  IN  ConstrainPulse(RawPulseUs(cfg, a180, ub))

pulseToDuty(us) == (us * dutyMax) \div periodUs

_applyAngles(s, yawDeg, pitchDeg, ub) ==
  LET yawWithTrim   == FAdd(yawDeg, s.cfg.trimYawDeg)
      pitchWithTrim == FAdd(pitchDeg, s.cfg.trimPitchDeg)
      pulseYawUs    == _angleToPulseUs(s.cfg, yawWithTrim, ub)
      pulsePitchUs  == _angleToPulseUs(s.cfg, pitchWithTrim, ub)
  IN  [s EXCEPT !.dutyYaw = pulseToDuty(pulseYawUs), !.pulseYawUs = pulseYawUs,
                !.dutyPitch = pulseToDuty(pulsePitchUs), !.pulsePitchUs = pulsePitchUs]

setTuning(s, t) == [s EXCEPT !.cfg = t]

center(s, ub) ==
  _applyAngles([s EXCEPT !.curYawDeg = FZero, !.curPitchDeg = FZero], FZero, FZero, ub)

setAngles(s, yawDeg, pitchDeg, ub) ==
  LET y == constrainf(yawDeg, s.cfg.yawMinDeg, s.cfg.yawMaxDeg)
      p == constrainf(pitchDeg, s.cfg.pitchMinDeg, s.cfg.pitchMaxDeg)
  IN  _applyAngles([s EXCEPT !.curYawDeg = y, !.curPitchDeg = p], y, p, ub)

\* step 4 of updateFromError: cur += (target - cur) * smooth.  The difference
\* is rounded; the product and the sum are rounded one after the other, or
\* once in a build that fuses them
SmoothStep(cur, target, smooth, fused) ==
  IF fused THEN fmaf(FSub(target, cur), smooth, cur)
  ELSE FAdd(cur, FMul(FSub(target, cur), smooth))

\* the dead zone without the inversion, which the code applies first
AxisErrorUninverted(raw, invert, deadzone) ==
  IF FLe(fabsf(raw), deadzone) THEN FZero ELSE raw

\* steps 1 and 2 of updateFromError: inversion, then the dead zone
AxisError(raw, invert, deadzone) ==
  LET e == IF invert THEN FNeg(raw) ELSE raw
  IN  IF FLe(fabsf(e), deadzone) THEN FZero ELSE e

\* step 3 of updateFromError: constrain(cur + e * kp, min, max), the product
\* and the sum rounded one after the other, or once in a build that fuses them
AxisTarget(cur, e, kp, lo, hi, fused) ==
  constrainf(IF fused THEN fmaf(e, kp, cur) ELSE FAdd(cur, FMul(e, kp)), lo, hi)

updateFromError(s, dx_px, dy_px, fused, ub) ==
  LET c  == s.cfg
      ex == AxisError(dx_px, c.invertYaw, c.deadzoneYawPx)
      ey == AxisError(dy_px, c.invertPitch, c.deadzonePitchPx)
      targetYaw   == AxisTarget(s.curYawDeg, ex, c.kpYawDegPerPx,
                                c.yawMinDeg, c.yawMaxDeg, fused)
      targetPitch == AxisTarget(s.curPitchDeg, ey, c.kpPitchDegPerPx,
                                c.pitchMinDeg, c.pitchMaxDeg, fused)
      y == SmoothStep(s.curYawDeg, targetYaw, c.smoothYaw, fused)
      p == SmoothStep(s.curPitchDeg, targetPitch, c.smoothPitch, fused)
  IN  _applyAngles([s EXCEPT !.curYawDeg = y, !.curPitchDeg = p], y, p, ub)

\* ServoController::begin: LEDC setup, then center()
ServoBegin(s, ub) == center(s, ub)

-----------------------------------------------------------------------------
(* JSON documents, as ArduinoJson's deserializeJson builds them            *)

JStr(x)  == [t |-> "str", s |-> x, n |-> 0]
JNum(x)  == [t |-> "num", s |-> "", n |-> x]
JObject  == [t |-> "obj", s |-> "", n |-> 0]
JAbsent  == [t |-> "absent", s |-> "", n |-> 0]

\* a parsed document: its "kind" and "payload" members, and the members of the
\* payload when the payload is an object
Doc(kind, payload, fields) == [kind |-> kind, payload |-> payload, fields |-> fields]

\* d["payload"].as<JsonObject>()[name]: absent unless the payload is an object
\* that has the member
Member(doc, name) ==
  IF doc.payload.t = "obj" /\ name \in DOMAIN doc.fields
  THEN doc.fields[name] ELSE JAbsent

\* a conversion that reads a quoted number as that number, which ArduinoJson's
\* operator| does not
AsNumberReadsText(v, default) ==
  IF v.t = "num" THEN FromInt(v.n) ELSE IF v.t = "str" THEN FromInt(30) ELSE default

\* variant | "default" for const char*, and variant | 0.0f for a float (the
\* numbers of the modelled lines are whole, so their floats are exact)
AsCStr(v, default) == IF v.t = "str" THEN v.s ELSE default
AsNumber(v, default) == IF v.t = "num" THEN FromInt(v.n) ELSE default

(* The lines the host is modelled to send, as bytes, each under its name. *)
Msg ==
  [
    \* {"kind":"mode","payload":"run"}
    ModeRun |->
      <<123,34,107,105,110,100,34,58,34,109,111,100,101,34,44,34,112,97,121,108,111,97,100,34,58,34,114,117,110,34,125>>,
    \* {"kind":"mode","payload":"boot"}
    ModeBoot |->
      <<123,34,107,105,110,100,34,58,34,109,111,100,101,34,44,34,112,97,121,108,111,97,100,34,58,34,98,111,111,116,34,125>>,
    \* {"kind":"mode","payload":"sleep-typo"}
    ModeTypo |->
      <<123,34,107,105,110,100,34,58,34,109,111,100,101,34,44,34,112,97,121,108,111,97,100,34,58,34,115,108,101,101,112,45,116,121,112,111,34,125>>,
    \* {"kind":"mode"}
    ModeNone |->
      <<123,34,107,105,110,100,34,58,34,109,111,100,101,34,125>>,
    \* {"kind":"mode","payload":5}
    ModeNum |->
      <<123,34,107,105,110,100,34,58,34,109,111,100,101,34,44,34,112,97,121,108,111,97,100,34,58,53,125>>,
    \* {"kind":"track","payload":{"dx_px":50,"dy_px":0,"dt_ms":10}}
    Track50 |->
      <<123,34,107,105,110,100,34,58,34,116,114,97,99,107,34,44,34,112,97,121,108,111,97,100,34,58,123,34,100,120,95,112,120,34,58,53,48,44,34,100,121,95,112,120,34,58,48,44,34,100,116,95,109,115,34,58,49,48,125,125>>,
    \* {"kind":"track","payload":{"dx_px":-8,"dy_px":10,"dt_ms":10}}
    TrackSmall |->
      <<123,34,107,105,110,100,34,58,34,116,114,97,99,107,34,44,34,112,97,121,108,111,97,100,34,58,123,34,100,120,95,112,120,34,58,45,56,44,34,100,121,95,112,120,34,58,49,48,44,34,100,116,95,109,115,34,58,49,48,125,125>>,
    \* {"kind":"track","payload":{"dx_px":2000,"dy_px":900,"dt_ms":10}}
    TrackFar |->
      <<123,34,107,105,110,100,34,58,34,116,114,97,99,107,34,44,34,112,97,121,108,111,97,100,34,58,123,34,100,120,95,112,120,34,58,50,48,48,48,44,34,100,121,95,112,120,34,58,57,48,48,44,34,100,116,95,109,115,34,58,49,48,125,125>>,
    \* {"kind":"track"}
    TrackNone |->
      <<123,34,107,105,110,100,34,58,34,116,114,97,99,107,34,125>>,
    \* {"kind":"track","payload":{"dx_px":"50","dt_ms":10}}
    TrackStr |->
      <<123,34,107,105,110,100,34,58,34,116,114,97,99,107,34,44,34,112,97,121,108,111,97,100,34,58,123,34,100,120,95,112,120,34,58,34,53,48,34,44,34,100,116,95,109,115,34,58,49,48,125,125>>,
    \* {"kind":"servo","payload":{"yaw":30,"pitch":-20}}
    Servo |->
      <<123,34,107,105,110,100,34,58,34,115,101,114,118,111,34,44,34,112,97,121,108,111,97,100,34,58,123,34,121,97,119,34,58,51,48,44,34,112,105,116,99,104,34,58,45,50,48,125,125>>,
    \* {"kind":"servo","payload":{"yaw":120,"pitch":-90}}
    ServoFar |->
      <<123,34,107,105,110,100,34,58,34,115,101,114,118,111,34,44,34,112,97,121,108,111,97,100,34,58,123,34,121,97,119,34,58,49,50,48,44,34,112,105,116,99,104,34,58,45,57,48,125,125>>,
    \* {"kind":"servo","payload":{"yaw":"30"}}
    ServoStr |->
      <<123,34,107,105,110,100,34,58,34,115,101,114,118,111,34,44,34,112,97,121,108,111,97,100,34,58,123,34,121,97,119,34,58,34,51,48,34,125,125>>,
    \* {"kind":"time","payload":"12:00"}
    Time |->
      <<123,34,107,105,110,100,34,58,34,116,105,109,101,34,44,34,112,97,121,108,111,97,100,34,58,34,49,50,58,48,48,34,125>>,
    \* {"kind":"weather","payload":"+5C"}
    Weather |->
      <<123,34,107,105,110,100,34,58,34,119,101,97,116,104,101,114,34,44,34,112,97,121,108,111,97,100,34,58,34,43,53,67,34,125>>,
    \* {"kind":"text","payload":"hi"}
    Text |->
      <<123,34,107,105,110,100,34,58,34,116,101,120,116,34,44,34,112,97,121,108,111,97,100,34,58,34,104,105,34,125>>,
    \* {"kind":"emotion","payload":"Happy"}
    Emotion |->
      <<123,34,107,105,110,100,34,58,34,101,109,111,116,105,111,110,34,44,34,112,97,121,108,111,97,100,34,58,34,72,97,112,112,121,34,125>>,
    \* {"kind":"emotion","payload":"Bogus"}
    EmotionBogus |->
      <<123,34,107,105,110,100,34,58,34,101,109,111,116,105,111,110,34,44,34,112,97,121,108,111,97,100,34,58,34,66,111,103,117,115,34,125>>,
    \* {"kind":"log","payload":"on"}
    LogOn |->
      <<123,34,107,105,110,100,34,58,34,108,111,103,34,44,34,112,97,121,108,111,97,100,34,58,34,111,110,34,125>>,
    \* {"kind":"log","payload":"off"}
    LogOff |->
      <<123,34,107,105,110,100,34,58,34,108,111,103,34,44,34,112,97,121,108,111,97,100,34,58,34,111,102,102,34,125>>,
    \* {"kind":"log"}
    LogNone |->
      <<123,34,107,105,110,100,34,58,34,108,111,103,34,125>>,
    \* {"kind":"hello","payload":"ping"}
    Hello |->
      <<123,34,107,105,110,100,34,58,34,104,101,108,108,111,34,44,34,112,97,121,108,111,97,100,34,58,34,112,105,110,103,34,125>>,
    \* {"kind":"foo","payload":"x"}
    Unknown |->
      <<123,34,107,105,110,100,34,58,34,102,111,111,34,44,34,112,97,121,108,111,97,100,34,58,34,120,34,125>>,
    \* {"payload":"run"}
    NoKind |->
      <<123,34,112,97,121,108,111,97,100,34,58,34,114,117,110,34,125>>,
    \* {"kind":"mode","payl
    BadTruncated |->
      <<123,34,107,105,110,100,34,58,34,109,111,100,101,34,44,34,112,97,121,108>>,
    \* xxxx
    BadJunk |->
      <<120,120,120,120>> ]

\* the documents deserializeJson builds from those lines
JsonTable ==
  { [text |-> Msg.ModeRun,   doc |-> Doc(JStr("mode"), JStr("run"), <<>>)],
    [text |-> Msg.ModeBoot,  doc |-> Doc(JStr("mode"), JStr("boot"), <<>>)],
    [text |-> Msg.ModeTypo,  doc |-> Doc(JStr("mode"), JStr("sleep-typo"), <<>>)],
    [text |-> Msg.ModeNone,  doc |-> Doc(JStr("mode"), JAbsent, <<>>)],
    [text |-> Msg.ModeNum,   doc |-> Doc(JStr("mode"), JNum(5), <<>>)],
    [text |-> Msg.Track50,   doc |-> Doc(JStr("track"), JObject,
        [dx_px |-> JNum(50), dy_px |-> JNum(0), dt_ms |-> JNum(10)])],
    [text |-> Msg.TrackSmall, doc |-> Doc(JStr("track"), JObject,
        [dx_px |-> JNum(-8), dy_px |-> JNum(10), dt_ms |-> JNum(10)])],
    [text |-> Msg.TrackFar,  doc |-> Doc(JStr("track"), JObject,
        [dx_px |-> JNum(2000), dy_px |-> JNum(900), dt_ms |-> JNum(10)])],
    [text |-> Msg.TrackNone, doc |-> Doc(JStr("track"), JAbsent, <<>>)],
    [text |-> Msg.TrackStr,  doc |-> Doc(JStr("track"), JObject,
        [dx_px |-> JStr("50"), dt_ms |-> JNum(10)])],
    [text |-> Msg.Servo,     doc |-> Doc(JStr("servo"), JObject,
        [yaw |-> JNum(30), pitch |-> JNum(-20)])],
    [text |-> Msg.ServoFar,  doc |-> Doc(JStr("servo"), JObject,
        [yaw |-> JNum(120), pitch |-> JNum(-90)])],
    [text |-> Msg.ServoStr,  doc |-> Doc(JStr("servo"), JObject,
        [yaw |-> JStr("30")])],
    [text |-> Msg.Time,      doc |-> Doc(JStr("time"), JStr("12:00"), <<>>)],
    [text |-> Msg.Weather,   doc |-> Doc(JStr("weather"), JStr("+5C"), <<>>)],
    [text |-> Msg.Text,      doc |-> Doc(JStr("text"), JStr("hi"), <<>>)],
    [text |-> Msg.Emotion,   doc |-> Doc(JStr("emotion"), JStr("Happy"), <<>>)],
    [text |-> Msg.EmotionBogus, doc |-> Doc(JStr("emotion"), JStr("Bogus"), <<>>)],
    [text |-> Msg.LogOn,     doc |-> Doc(JStr("log"), JStr("on"), <<>>)],
    [text |-> Msg.LogOff,    doc |-> Doc(JStr("log"), JStr("off"), <<>>)],
    [text |-> Msg.LogNone,   doc |-> Doc(JStr("log"), JAbsent, <<>>)],
    [text |-> Msg.Hello,     doc |-> Doc(JStr("hello"), JStr("ping"), <<>>)],
    [text |-> Msg.Unknown,   doc |-> Doc(JStr("foo"), JStr("x"), <<>>)],
    [text |-> Msg.NoKind,    doc |-> Doc(JAbsent, JStr("run"), <<>>)] }

IsPrefix(p, s) == Len(p) <= Len(s) /\ SubSeq(s, 1, Len(p)) = p

\* whether the text starts with a complete JSON value that is no object or
\* array: a string (here without escapes), a whole number, true, false or null
StartsWithScalar(s) ==
  /\ s # <<>>
  /\ \/ s[1] = 34 /\ \E j \in 2..Len(s) : s[j] = 34 /\ \A k \in 2..(j - 1) : s[k] # 92
     \/ s[1] \in 48..57
     \/ s[1] = 45 /\ Len(s) >= 2 /\ s[2] \in 48..57
     \/ IsPrefix(<<116, 114, 117, 101>>, s)
     \/ IsPrefix(<<102, 97, 108, 115, 101>>, s)
     \/ IsPrefix(<<110, 117, 108, 108>>, s)

\* deserializeJson(d, s) on the modelled lines.  The parser reads one value
\* and stops: text after it is not read.  A line that starts with a complete
\* object parses to that object; a line that starts with a complete string,
\* number or literal parses to that value, which has no members, so that its
\* "kind" and "payload" are absent; any other line is a DeserializationError
deserializeJson(s) ==
  LET hits == {r \in JsonTable : IsPrefix(r.text, s)}
  IN  IF hits # {}
      THEN [err |-> FALSE, doc |-> (CHOOSE r \in hits : TRUE).doc]
      ELSE IF StartsWithScalar(s)
      THEN [err |-> FALSE, doc |-> Doc(JAbsent, JAbsent, <<>>)]
      ELSE [err |-> TRUE, doc |-> Doc(JAbsent, JAbsent, <<>>)]

-----------------------------------------------------------------------------
(* The device as one record, so that a handler is a function of the state  *)
(* it runs in.  The fields are the module's variables.                     *)

World ==
  [ variant |-> variant, contract |-> contract, pc |-> pc, now |-> now, servo |-> servo, client |-> client,
    ui |-> ui, logger |-> logger, disp |-> disp, overlay |-> overlay, expr |-> expr,
    energy |-> energy, menu |-> menu, sent |-> sent, trace |-> trace,
    rxTick |-> rxTick, uptime |-> uptime, sinceMark |-> sinceMark,
    sinceByte |-> sinceByte, sinceHello |-> sinceHello, helloGap |-> helloGap,
    restarts |-> restarts, ops |-> ops ]

\* the history counters of elapsed time stop counting here
HistoryCap == 12000

Capped(x) == IF x > HistoryCap THEN HistoryCap ELSE x

\* d milliseconds pass
Elapse(w, d) ==
  [w EXCEPT !.now = Add32(w.now, d),
            !.uptime = w.uptime + d,
            !.sinceMark = Capped(w.sinceMark + d),
            !.sinceByte = IF w.sinceByte < 0 THEN -1 ELSE Capped(w.sinceByte + d),
            !.sinceHello = IF w.sinceHello < 0 THEN -1 ELSE Capped(w.sinceHello + d)]

Event(e, tag, line) == [e |-> e, tag |-> tag, line |-> line]

Emit(w, e, tag) == [w EXCEPT !.trace = Append(w.trace, Event(e, tag, <<>>))]

\* the events of one kind in a trace
EventsOf(tr, e) == SelectSeq(tr, LAMBDA x : x.e = e)

HasEvent(tr, e, tag) == \E i \in 1..Len(tr) : tr[i].e = e /\ tr[i].tag = tag

(* Logger *)

\* Logger::log: the line goes to Serial, and to the screen buffer when screen
\* logging is on (the buffer's text is not modelled)
Log(w, tag) == Emit(w, "log", tag)

\* Logger::init
LoggerInit(w) ==
  Emit([w EXCEPT !.logger.created = TRUE, !.logger.screen = TRUE,
                 !.logger.autoPush = TRUE, !.logger.inits = w.logger.inits + 1],
       "Logger.init", "")

OnOff(en) == IF en THEN "on" ELSE "off"

\* Logger::enableScreenLogging and Logger::enableAutoPresent
enableScreenLogging(w, en) ==
  Emit([w EXCEPT !.logger.screen = en], "enableScreenLogging", OnOff(en))

enableAutoPresent(w, en) ==
  Emit([w EXCEPT !.logger.autoPush = en], "enableAutoPresent", OnOff(en))

\* Logger::enableSerialLogging, which SerialClient calls and Logger.h does not hold
enableSerialLogging(w, en) == [w EXCEPT !.logger.serial = en]

(* M5.Display *)

\* the brightness levels the firmware writes, as the trace names them
BrightnessTag(b) ==
  IF b = 0 THEN "0" ELSE IF b = DimBrightness THEN "5" ELSE "20"

\* M5.Display.setBrightness, M5.Display.sleep, M5.Display.wakeup
SetBrightness(w, b) ==
  Emit([w EXCEPT !.disp.brightness = b], "setBrightness", BrightnessTag(b))

DisplaySleep(w) == Emit([w EXCEPT !.disp.asleep = TRUE], "Display.sleep", "")

DisplayWakeup(w) == Emit([w EXCEPT !.disp.asleep = FALSE], "Display.wakeup", "")

(* main.cpp: setUIMode *)

\* a setUIMode that initializes the logger on every entry into Boot or Run
setUIModeAlwaysInit(w, m) ==
  LET w1 == Emit([w EXCEPT !.ui.uiMode = m], "setUIMode", m)
  IN  IF m = "Sleep"
      THEN DisplaySleep(SetBrightness(enableScreenLogging(w1, FALSE), 0))
      ELSE SetBrightness(DisplayWakeup(enableScreenLogging(
             [enableAutoPresent(LoggerInit(w1), FALSE) EXCEPT !.ui.loggerReady = TRUE],
             TRUE)), FullBrightness)

\* a setUIMode that leaves the display alone when it enters Sleep
setUIModeKeepsDisplay(w, m) ==
  LET w1 == Emit([w EXCEPT !.ui.uiMode = m], "setUIMode", m)
  IN  IF m = "Sleep"
      THEN enableScreenLogging(w1, FALSE)
      ELSE LET w2 == IF ~w1.ui.loggerReady
                     THEN [enableAutoPresent(LoggerInit(w1), FALSE) EXCEPT
                             !.ui.loggerReady = TRUE]
                     ELSE w1
           IN  SetBrightness(DisplayWakeup(enableScreenLogging(w2, TRUE)), FullBrightness)

setUIMode(w, m) ==
  LET w1 == Emit([w EXCEPT !.ui.uiMode = m], "setUIMode", m)
  IN  IF m = "Sleep"
      THEN DisplaySleep(SetBrightness(enableScreenLogging(w1, FALSE), 0))
      ELSE LET w2 == IF ~w1.ui.loggerReady
                     THEN [enableAutoPresent(LoggerInit(w1), FALSE) EXCEPT
                             !.ui.loggerReady = TRUE]
                     ELSE w1
           IN  SetBrightness(DisplayWakeup(enableScreenLogging(w2, TRUE)), FullBrightness)

(* Overlay *)

setTime(w, t)    == Emit([w EXCEPT !.overlay.time_ = t], "setTime", t)
setWeather(w, t) == Emit([w EXCEPT !.overlay.weather_ = t], "setWeather", t)
setText(w, t) ==
  Emit([w EXCEPT !.overlay.text_ = t, !.overlay.textVisible_ = TRUE,
                 !.overlay.lastTextMs_ = w.now], "setText", t)

OverlayTick(w) ==
  LET w1 == Emit(w, "overlay.tick", "")
  IN  IF w.overlay.textVisible_
         /\ Gt32(Sub32(w.now, w.overlay.lastTextMs_), TEXT_DISPLAY_TIMEOUT)
      THEN [w1 EXCEPT !.overlay.textVisible_ = FALSE]
      ELSE w1

(* Emotion *)

\* the keys of Emotion::map_
EmotionNames ==
  { "Normal", "Angry", "Glee", "Happy", "Sad", "Worried", "Focused", "Annoyed",
    "Surprised", "Skeptic", "Frustrated", "Unimpressed", "Sleepy", "Tired",
    "Suspicious", "Squint", "Furious", "Scared", "Awe" }

\* an emotion handler that also nods the head, which the code's does not
EmotionHandleNods(w, key) ==
  LET w1 == Emit(w, "em.handle", key)
  IN  [w1 EXCEPT !.expr = key, !.servo.dutyPitch = pulseToDuty(PulseFloorUs)]

EmotionHandle(w, key) ==
  LET w1 == Emit(w, "em.handle", key)
  IN  IF key \in EmotionNames THEN [w1 EXCEPT !.expr = key] ELSE w1

(* ServoController calls as the firmware makes them, with their log lines *)

ServoCenter(w, ub) == Log([w EXCEPT !.servo = center(w.servo, ub)], "Servo center")

ServoSetTuning(w, t) == Log([w EXCEPT !.servo = setTuning(w.servo, t)], "Servo Tuning set")

ServoSetAngles(w, yawDeg, pitchDeg, ub) ==
  Log(Emit([w EXCEPT !.servo = setAngles(w.servo, yawDeg, pitchDeg, ub)],
           "setAngles", ""), "[ABS]")

ServoUpdateFromError(w, dx_px, dy_px, ub) ==
  Log(Emit([w EXCEPT !.servo = updateFromError(w.servo, dx_px, dy_px, w.contract, ub)],
           "updateFromError", ""), "[SMTH]")

-----------------------------------------------------------------------------
(* The dispatchers                                                         *)

\* a strcmp chain that falls through to Run, which the code's does not
ModeRunByDefault(t) == IF t = "boot" THEN "Boot" ELSE "Run"

\* the mode a mode message asks for: the strcmp chain on its payload
ModeOf(t) ==
  IF t = "boot" THEN "Boot" ELSE IF t = "run" THEN "Run" ELSE "Sleep"

\* SerialClient::handleJson_ once the line has parsed
SerialDispatch(w, d, ub) ==
  LET kind == AsCStr(d.kind, "")
      w0   == Log(w, "[SER] kind")
  IN  IF kind = "time" THEN setTime(w0, AsCStr(d.payload, ""))
      ELSE IF kind = "weather" THEN setWeather(w0, AsCStr(d.payload, ""))
      ELSE IF kind = "text" THEN setText(w0, AsCStr(d.payload, ""))
      ELSE IF kind = "emotion" THEN EmotionHandle(w0, AsCStr(d.payload, ""))
      ELSE IF kind = "mode" THEN setUIMode(w0, ModeOf(AsCStr(d.payload, "")))
      ELSE IF kind = "track" THEN
        Log(ServoUpdateFromError(w0, AsNumber(Member(d, "dx_px"), FZero),
                                 AsNumber(Member(d, "dy_px"), FZero), ub),
            "[SER] track")
      ELSE IF kind = "log" THEN
        LET en == (AsCStr(d.payload, "off") = "on")
        IN  Log(Emit(enableSerialLogging(w0, en), "enableSerialLogging",
                     IF en THEN "on" ELSE "off"),
                "[SER] serial logging")
      ELSE IF kind = "hello" THEN w0
      ELSE Log(w0, "Unknown kind")

\* BTClient::handleJson_ once the line has parsed
BTDispatch(w, d, ub) ==
  LET kind == AsCStr(d.kind, "")
  IN  IF kind = "time" THEN setTime(w, AsCStr(d.payload, ""))
      ELSE IF kind = "weather" THEN setWeather(w, AsCStr(d.payload, ""))
      ELSE IF kind = "text" THEN setText(w, AsCStr(d.payload, ""))
      ELSE IF kind = "emotion" THEN EmotionHandle(w, AsCStr(d.payload, ""))
      ELSE IF kind = "servo" THEN
        ServoSetAngles(w, AsNumber(Member(d, "yaw"), FZero),
                       AsNumber(Member(d, "pitch"), FZero), ub)
      ELSE Log(w, "Unknown kind")

\* a parse failure branch that gives up and restarts, which the code's does not
JsonErrorRestarts(w) ==
  [Emit(w, "ESP.restart", "") EXCEPT !.pc = "off"]

\* the parse failure branch of both handleJson_
JsonError(w) == Log(w, "JSON error")

\* SerialClient::handleJson_ / BTClient::handleJson_
handleJson_(w, s, ub) ==
  LET w0 == [w EXCEPT !.trace = Append(w.trace, Event("handleJson_", "", s))]
      r  == deserializeJson(s)
  IN  IF r.err THEN JsonError(w0)
      ELSE IF w.variant = "serial" THEN SerialDispatch(w0, r.doc, ub)
      ELSE BTDispatch(w0, r.doc, ub)

-----------------------------------------------------------------------------
(* The line transports                                                     *)

\* lastRecv_ = millis() for a byte read from the port
MarkReceived(w) ==
  [w EXCEPT !.client.lastRecv_ = w.now, !.sinceMark = 0, !.sinceByte = 0,
            !.restarts = 0]

\* an overflow branch that keeps the line, which the code's does not
LineKept(w) == w

\* the overflow branch: SerialClient logs a warning, BTClient does not
LineOverflow(w) ==
  LET w1 == [w EXCEPT !.client.line_ = <<>>]
  IN  IF w.variant = "serial" THEN Log(w1, "line overflow") ELSE w1

\* line_ += ch and the length test that follows it
AppendByte(w, ch) ==
  LET w1 == [w EXCEPT !.client.line_ = Append(w.client.line_, ch)]
  IN  IF Len(w1.client.line_) > LineLimit THEN LineOverflow(w1) ELSE w1

\* a newline that is swallowed, so that the next line joins this one
CompleteLineCoalesced(w, ub) == w

\* what the line_.length() test on a newline lets through to handleJson_
CompleteLine(w, ub) ==
  IF Len(w.client.line_) > 0
  THEN [handleJson_(w, w.client.line_, ub) EXCEPT !.client.line_ = <<>>]
  ELSE w

\* one iteration of the while loop of SerialClient::loop / BTClient::loop
ReadByte(w, ch, ub) ==
  LET w1 == MarkReceived(w)
  IN  IF ch = LF THEN CompleteLine(w1, ub)
      ELSE IF ch # CR THEN AppendByte(w1, ch)
      ELSE w1

\* the while loop over bytes[lo..hi], first to last
RECURSIVE ReadBytes(_, _, _, _, _)
ReadBytes(w, bytes, lo, hi, ub) ==
  IF lo > hi THEN w
  ELSE IF lo = hi THEN ReadByte(w, bytes[lo], ub)
  ELSE LET mid == (lo + hi) \div 2
           w1  == ReadBytes(w, bytes, lo, mid, ub)
       IN  IF Len(w1.client.line_) >= 0
           THEN ReadBytes(w1, bytes, mid + 1, hi, ub)
           ELSE w1

\* SerialClient::sendEvent("hello", payload)
sendEvent(w, payload) ==
  LET w1 == Emit(w, "sendEvent", payload)
  IN  [w1 EXCEPT !.sent = Append(w.sent, payload),
                 !.helloGap = w.sinceHello,
                 !.sinceHello = 0]

\* the keep-alive test with >= where the code has >
HelloDueAtLimit(w) == Ge32(Sub32(w.now, w.client.lastHello_), HelloPeriodMs)

\* the keep-alive test of SerialClient::loop
HelloDue(w) == Gt32(Sub32(w.now, w.client.lastHello_), HelloPeriodMs)

\* the watchdog test with >= where the code has >
WatchdogExpiredAtLimit(w) == Ge32(Sub32(w.now, w.client.lastRecv_), WatchdogMs)

\* the watchdog test with the keep-alive period where the code has 5000
WatchdogExpiredAtHello(w) == Gt32(Sub32(w.now, w.client.lastRecv_), HelloPeriodMs)

\* the watchdog test of SerialClient::loop
WatchdogExpired(w) == Gt32(Sub32(w.now, w.client.lastRecv_), WatchdogMs)

\* the counter of restarts stops counting here
RestartCap == 3

\* ESP.restart(): it does not return.  The device is off from here on, and the
\* members keep their last values until the reset that setup() follows
EspRestart(w) ==
  [Emit(w, "ESP.restart", "") EXCEPT
     !.pc = "off",
     !.restarts = IF w.restarts < RestartCap THEN w.restarts + 1 ELSE RestartCap]

SerialClientLoop(w, bytes, ub) ==
  LET w1 == IF HelloDue(w)
            THEN [sendEvent(w, "ping") EXCEPT !.client.lastHello_ = w.now]
            ELSE w
  IN  IF WatchdogExpired(w1) THEN EspRestart(w1)
      ELSE ReadBytes(w1, bytes, 1, Len(bytes), ub)

BTClientLoop(w, bytes, ub) == ReadBytes(w, bytes, 1, Len(bytes), ub)

hasRecentInput(w) == Lt32(Sub32(w.now, w.client.lastRecv_), RecentInputMs)

\* SerialClient::begin after Serial.begin
SerialClientBegin(w) ==
  LET w1 == sendEvent(Elapse(w, BeginDelayMs), "ready")
  IN  [w1 EXCEPT !.client.lastHello_ = w1.now, !.client.lastRecv_ = w1.now,
                 !.sinceMark = 0]

\* BTClient::begin with the default pin: when the radio is already started
\* (btStarted) it is stopped and 50 ms pass; then the bring-up calls, each
\* logged with the name of its result; the READY line only when the stack
\* returns an address (mac).  No member is written.
BTClientBegin(w, btStarted, mac) ==
  LET w1 == IF btStarted THEN Elapse(Log(w, "[BT] btStop()"), BeginDelayMs) ELSE w
      w2 == Log(Log(Log(w1, "[BT] mem_release(BLE)"), "[BT] controller_init"),
                "[BT] controller_enable(CLASSIC)")
      w3 == Log(Log(w2, "[BT] bluedroid_init"), "[BT] bluedroid_enable")
      w4 == Log(Log(w3, "[BT] set_device_name"), "[BT] set_scan_mode")
      w5 == Log(Log(w4, "[BT] gap_set_pin"), "[BT] BluetoothSerial.begin")
  IN  IF mac THEN Log(w5, "[BT] READY") ELSE w5

-----------------------------------------------------------------------------
(* EnergyManager                                                           *)

EnergyBegin(w) ==
  [SetBrightness([w EXCEPT !.energy.lastActivity_ = w.now], FullBrightness) EXCEPT
     !.energy.screenDimmed_ = FALSE]

\* a light sleep that returns at once, which the timer wake-up does not
LightSleepReturnsAtOnce(w) == Emit(w, "light_sleep", "")

\* esp_light_sleep_start() with the 5 s timer wake-up: nothing runs meanwhile
LightSleep(w) == Elapse(Emit(w, "light_sleep", ""), LightSleepMs)

EnergyUpdate(w, recentActivity) ==
  LET idleTime == Sub32(w.now, w.energy.lastActivity_)
      w0 == Emit(w, "energy.update", "")
      w1 == IF recentActivity
            THEN LET a == [w0 EXCEPT !.energy.lastActivity_ = w.now]
                 IN  IF a.energy.screenDimmed_
                     THEN Log([SetBrightness(a, FullBrightness) EXCEPT
                                 !.energy.screenDimmed_ = FALSE],
                              "[ENERGY] restored")
                     ELSE a
            ELSE w0
      w2 == IF ~w1.energy.screenDimmed_ /\ Gt32(idleTime, DISPLAY_TIMEOUT_MS)
            THEN Log([SetBrightness(w1, DimBrightness) EXCEPT
                        !.energy.screenDimmed_ = TRUE],
                     "[ENERGY] dimmed")
            ELSE w1
  IN  IF Gt32(idleTime, SLEEP_TIMEOUT_MS)
      THEN LET s == Log(LightSleep(Log(w2, "[ENERGY] light sleep")), "[ENERGY] woke")
           IN  [SetBrightness(s, FullBrightness) EXCEPT
                  !.energy.screenDimmed_ = FALSE,
                  !.energy.lastActivity_ = s.now]
      ELSE w2

-----------------------------------------------------------------------------
(* ButtonsManager and Menu                                                 *)

\* what M5.update() reports: B held down, and the buttons pressed since the
\* last update
NoButtons == [bHeld |-> FALSE, a |-> FALSE, b |-> FALSE, c |-> FALSE]
HoldB     == [bHeld |-> TRUE,  a |-> FALSE, b |-> FALSE, c |-> FALSE]
PressA    == [bHeld |-> FALSE, a |-> TRUE,  b |-> FALSE, c |-> FALSE]
PressB    == [bHeld |-> TRUE,  a |-> FALSE, b |-> TRUE,  c |-> FALSE]
PressC    == [bHeld |-> FALSE, a |-> FALSE, b |-> FALSE, c |-> TRUE]

\* Menu::begin with the one item ButtonsManager passes
MenuBegin(w) == Emit([w EXCEPT !.menu.visible = TRUE, !.menu.idx = 0], "menu.begin", "")

\* Menu::navPrev and Menu::navNext on a one-item menu
MenuNav(w, name) == IF w.menu.visible THEN Emit(w, name, "") ELSE w

\* Menu::select: the item's action (a log line), then stop()
MenuSelect(w) ==
  IF w.menu.visible
  THEN [Log(Emit(w, "menu.select", ""), "Reconfiguring Wi-Fi") EXCEPT !.menu.visible = FALSE]
  ELSE w

handleLongPressB(w, btn) ==
  IF btn.bHeld
  THEN IF w.menu.bPressTime = U32(0)
       THEN [w EXCEPT !.menu.bPressTime = w.now]
       ELSE IF Ge32(Sub32(w.now, w.menu.bPressTime), LONG_PRESS_MS) /\ ~w.menu.visible
            THEN MenuBegin(Log(w, "Opening menu"))
            ELSE w
  ELSE [w EXCEPT !.menu.bPressTime = U32(0)]

handleMenuNavigation(w, btn) ==
  LET w1 == IF btn.a THEN MenuNav(w, "menu.navPrev") ELSE w
      w2 == IF btn.c THEN MenuNav(w1, "menu.navNext") ELSE w1
  IN  IF btn.b THEN MenuSelect(w2) ELSE w2

ButtonsUpdate(w, btn) ==
  LET w1 == handleLongPressB(w, btn)
  IN  IF w1.menu.visible THEN handleMenuNavigation(w1, btn) ELSE w1

-----------------------------------------------------------------------------
(* main.cpp: setup() and loop()                                            *)

PowerOnClient == [line_ |-> <<>>, lastRecv_ |-> U32(0), lastHello_ |-> U32(0)]

\* the statics and globals as the C++ runtime initializes them after a reset;
\* the history counters that span resets keep their values
PowerOn(w) ==
  [w EXCEPT !.pc = "off", !.now = U32(0), !.uptime = 0,
            !.servo = ServoConstructed,
            !.client = PowerOnClient,
            !.ui = [uiMode |-> "Sleep", loggerReady |-> FALSE,
                    lastBootFrame |-> U32(0), lastRunFrame |-> U32(0)],
            !.logger = [screen |-> TRUE, autoPush |-> TRUE, created |-> FALSE,
                        serial |-> FALSE, inits |-> 0],
            !.disp = [brightness |-> 0, asleep |-> FALSE],
            !.overlay = [time_ |-> "", weather_ |-> "", text_ |-> "",
                         textVisible_ |-> FALSE, lastTextMs_ |-> U32(0)],
            !.expr = "Normal",
            !.energy = [lastActivity_ |-> U32(0), screenDimmed_ |-> FALSE],
            !.menu = [visible |-> FALSE, idx |-> 0, bPressTime |-> U32(0)],
            !.sent = <<>>]

setup(w, ub) ==
  LET w1 == SetBrightness(w, 0)
      w2 == Log(setUIMode(w1, "Sleep"), "=== Device booting ===")
      w3 == Log(Log(ServoCenter(w2, ub), "ServoController: LEDC"), "ServoController: pulses")
      w4 == ServoSetTuning(w3, SetupTuning)
      w5 == [w4 EXCEPT !.menu.bPressTime = U32(0)]
      w6 == EnergyBegin(w5)
      w7 == SerialClientBegin(w6)
  IN  Log(w7, "[SYS] transport ready")

\* a boot frame that moves on to Run by itself, which the code's does not
RenderBootThenRun(w) ==
  [Emit([w EXCEPT !.ui.lastBootFrame = w.now], "render", "boot") EXCEPT
     !.ui.uiMode = "Run"]

\* the frame drawn in Boot and in Run, at most once per 100 ms
RenderBoot(w) ==
  IF Gt32(Sub32(w.now, w.ui.lastBootFrame), FrameIntervalMs)
  THEN Emit([w EXCEPT !.ui.lastBootFrame = w.now], "render", "boot")
  ELSE w

RenderRun(w) ==
  IF Gt32(Sub32(w.now, w.ui.lastRunFrame), FrameIntervalMs)
  THEN Emit([w EXCEPT !.ui.lastRunFrame = w.now], "render", "run")
  ELSE w

loop(w, bytes, btn, ub) ==
  LET w1 == ButtonsUpdate(w, btn)
      w2 == SerialClientLoop(w1, bytes, ub)
  IN  IF w2.pc = "off" THEN w2
      ELSE IF w2.ui.uiMode = "Sleep" THEN w2
      ELSE IF w2.ui.uiMode = "Boot" THEN EnergyUpdate(RenderBoot(w2), TRUE)
      ELSE LET w3 == OverlayTick(w2)
           IN  IF w3.menu.visible THEN EnergyUpdate(w3, TRUE)
               ELSE EnergyUpdate(RenderRun(w3), TRUE)

-----------------------------------------------------------------------------
(* Actions                                                                 *)

Commit(w) ==
  /\ variant' = w.variant /\ contract' = w.contract
  /\ pc' = w.pc /\ now' = w.now /\ servo' = w.servo
  /\ client' = w.client /\ ui' = w.ui /\ logger' = w.logger /\ disp' = w.disp
  /\ overlay' = w.overlay /\ expr' = w.expr /\ energy' = w.energy /\ menu' = w.menu
  /\ sent' = w.sent /\ trace' = w.trace /\ rxTick' = w.rxTick /\ uptime' = w.uptime
  /\ sinceMark' = w.sinceMark /\ sinceByte' = w.sinceByte
  /\ sinceHello' = w.sinceHello /\ helloGap' = w.helloGap
  /\ restarts' = w.restarts /\ ops' = w.ops

\* the state a call starts in: d ms after the previous one, with a fresh trace
Entering(d, bytes) == [Elapse(World, d) EXCEPT !.trace = <<>>, !.rxTick = bytes]

\* the longest a model run lets one boot session last, in ms
MaxUptime == 9000

\* the reset, and setup() reached b ms after it
Setup(b, ub) ==
  /\ variant = "serial"
  /\ pc = "off"
  /\ LET w == [Elapse(PowerOn(World), b) EXCEPT !.trace = <<>>, !.rxTick = <<>>]
     IN  Commit([setup(w, ub) EXCEPT !.pc = "run"])

\* one call of loop(), d ms after the previous call (or after setup), with
\* `bytes` waiting in the receive queue and the buttons as in btn
Loop(d, bytes, btn, ub) ==
  /\ variant = "serial"
  /\ pc = "run"
  /\ uptime + d <= MaxUptime
  /\ Commit(loop(Entering(d, bytes), bytes, btn, ub))

\* a BTClient by itself: begin() called b ms after the objects were constructed
BTBegin(b, btStarted, mac) ==
  /\ variant = "bt"
  /\ pc = "off"
  /\ LET w == [Elapse(PowerOn(World), b) EXCEPT !.trace = <<>>, !.rxTick = <<>>]
     IN  Commit([BTClientBegin(w, btStarted, mac) EXCEPT !.pc = "run"])

\* one call of BTClient::loop(), d ms after the previous call (or after
\* begin), with `bytes` waiting in the receive queue
BTLoop(d, bytes, ub) ==
  /\ variant = "bt"
  /\ pc = "run"
  /\ uptime + d <= MaxUptime
  /\ Commit(BTClientLoop(Entering(d, bytes), bytes, ub))

\* the largest number of ServoController calls in a run of its API
MaxOps == 4

ApiCommit(s) ==
  /\ servo' = s
  /\ ops' = ops + 1
  /\ UNCHANGED <<variant, contract, pc, now, client, ui, logger, disp, overlay, expr, energy,
                 menu, sent, trace, rxTick, uptime, sinceMark, sinceByte, sinceHello,
                 helloGap, restarts>>

ApiBegin(ub) == ops = 0 /\ ApiCommit(ServoBegin(servo, ub))
ApiCenter(ub) == ops \in 1..(MaxOps - 1) /\ ApiCommit(center(servo, ub))
ApiSetAngles(y, p, ub) == ops \in 1..(MaxOps - 1) /\ ApiCommit(setAngles(servo, y, p, ub))
ApiUpdateFromError(dx, dy, ub) ==
  ops \in 1..(MaxOps - 1) /\ ApiCommit(updateFromError(servo, dx, dy, contract, ub))
ApiSetTuning(t) == ops \in 1..(MaxOps - 1) /\ ApiCommit(setTuning(servo, t))

-----------------------------------------------------------------------------
(* Specifications                                                          *)

InitWorld(v, c) ==
  PowerOn([ variant |-> v, contract |-> c, pc |-> "off", now |-> U32(0), servo |-> ServoConstructed,
            client |-> PowerOnClient, ui |-> <<>>, logger |-> <<>>, disp |-> <<>>,
            overlay |-> <<>>, expr |-> "Normal", energy |-> <<>>, menu |-> <<>>,
            sent |-> <<>>, trace |-> <<>>, rxTick |-> <<>>, uptime |-> 0,
            sinceMark |-> 0, sinceByte |-> -1, sinceHello |-> -1, helloGap |-> -1,
            restarts |-> 0, ops |-> 0 ])

InitOf(v) ==
  \E c \in BOOLEAN :
  LET w == InitWorld(v, c)
  IN  /\ variant = w.variant /\ contract = w.contract /\ pc = w.pc /\ now = w.now /\ servo = w.servo
      /\ client = w.client /\ ui = w.ui /\ logger = w.logger /\ disp = w.disp
      /\ overlay = w.overlay /\ expr = w.expr /\ energy = w.energy /\ menu = w.menu
      /\ sent = w.sent /\ trace = w.trace /\ rxTick = w.rxTick /\ uptime = w.uptime
      /\ sinceMark = w.sinceMark /\ sinceByte = w.sinceByte
      /\ sinceHello = w.sinceHello /\ helloGap = w.helloGap
      /\ restarts = w.restarts /\ ops = w.ops

\* the firmware as main.cpp builds it: the USB serial transport
InitSerial == InitOf("serial")

\* a BTClient constructed over an Overlay, an Emotion and a ServoController,
\* none of them begun; main.cpp builds no such object, so this is the class
\* by itself and not a firmware
InitBT == InitOf("bt")

\* a run of either line client: the firmware, or a BTClient by itself
InitClient == InitSerial \/ InitBT

\* n bytes that are neither CR nor LF
Junk(n) == [i \in 1..n |-> 120]

Line(m) == m \o <<LF>>

\* reset-to-setup times, in ms
BootTimes == {60, 400}

-----------------------------------------------------------------------------
(* SpecServo: the ServoController driven through its public API            *)

NarrowTuning ==
  [DefaultTuning EXCEPT !.yawMinDeg = Deg(-30), !.yawMaxDeg = Deg(30),
                        !.pitchMinDeg = Deg(-20), !.pitchMaxDeg = Deg(20),
                        !.trimYawDeg = Deg(45), !.trimPitchDeg = Deg(-45),
                        !.smoothYaw = FromInt(1), !.invertPitch = TRUE]

\* minPulseUs above maxPulseUs, and both outside 500..2500
SwappedPulseTuning == [DefaultTuning EXCEPT !.minPulseUs = 2600, !.maxPulseUs = 400]

WidePulseTuning == [DefaultTuning EXCEPT !.minPulseUs = 300, !.maxPulseUs = 2700]

\* the last one has smoothing factors that are no powers of two, 0.1f and
\* 0.3f, so that the product in cur += (target - cur) * smooth is not exact
Tunings ==
  {DefaultTuning, SetupTuning, NarrowTuning, SwappedPulseTuning, WidePulseTuning,
   [DefaultTuning EXCEPT !.smoothYaw = F32(1, 10), !.smoothPitch = F32(3, 10)]}

\* absolute angles asked of setAngles; the last pair is 16.5 and -14.25 degrees
AngleInputs ==
  { <<Deg(70), Deg(-65)>>, <<Deg(200), Deg(-200)>>, <<Deg(-90), Deg(10)>>,
    <<F32(33, 2), F32(-57, 4)>> }

\* pixel errors given to updateFromError
ErrorInputs ==
  { <<FromInt(50), FZero>>, <<FromInt(-10), FromInt(10)>>,
    <<FromInt(-2000), FromInt(900)>>, <<FromInt(11), FromInt(-40)>> }

NextServo ==
  \/ \E ub \in NegCastOutcomes : ApiBegin(ub)
  \/ \E ub \in NegCastOutcomes : ApiCenter(ub)
  \/ \E a \in AngleInputs, ub \in NegCastOutcomes : ApiSetAngles(a[1], a[2], ub)
  \/ \E e \in ErrorInputs, ub \in NegCastOutcomes : ApiUpdateFromError(e[1], e[2], ub)
  \/ \E t \in Tunings : ApiSetTuning(t)

SpecServo == InitSerial /\ [][NextServo]_vars

\* C1: after any sequence of center, setAngles, updateFromError and setTuning
\* calls, the current yaw and pitch angles lie within the limits of the tuning
\* in force.
AnglesWithinLimits ==
  /\ FLe(servo.cfg.yawMinDeg, servo.curYawDeg)
  /\ FLe(servo.curYawDeg, servo.cfg.yawMaxDeg)
  /\ FLe(servo.cfg.pitchMinDeg, servo.curPitchDeg)
  /\ FLe(servo.curPitchDeg, servo.cfg.pitchMaxDeg)

\* C2: every pulse width computed by _angleToPulseUs and written to a PWM
\* channel lies in [500, 2500] us, whatever the angle, the trim and the
\* configured pulse range, and the duty written is the duty of that pulse.
PulseWithinHardLimits ==
  ops >= 1 =>
    /\ servo.pulseYawUs \in PulseFloorUs..PulseCeilUs
    /\ servo.pulsePitchUs \in PulseFloorUs..PulseCeilUs
    /\ servo.dutyYaw = pulseToDuty(servo.pulseYawUs)
    /\ servo.dutyPitch = pulseToDuty(servo.pulsePitchUs)

\* C2 witness: a pulse range with minPulseUs > maxPulseUs (both outside
\* 500..2500) is in force and the pulse written under it was cut to the ceiling.
PulseClampedUnderSwappedRange ==
  /\ ops >= 2
  /\ servo.cfg.minPulseUs > servo.cfg.maxPulseUs
  /\ servo.pulseYawUs = PulseCeilUs
  /\ servo.dutyYaw = pulseToDuty(PulseCeilUs)

-----------------------------------------------------------------------------
(* Specifications of the firmware: setup() after every reset, then loop()  *)
(* calls.  They differ in what the environment is let do.  SpecLine,       *)
(* SpecClock and SpecDispatch also run the BTClient class by itself, on    *)
(* the same queues: begin(), then loop() calls.                            *)

\* setup() installs a tuning with maxPulseUs >= minPulseUs and the firmware
\* never installs another (a BTClient by itself leaves the default tuning),
\* so the pulse conversion never casts a negative value there and the outcome
\* named here is never consulted
FirmwareCast == CHOOSE ub \in NegCastOutcomes : TRUE

(* SpecLine: line framing under long and short byte runs.                  *)

LineDelays == {2500, 3000}

LineBytes ==
  { Junk(1024), Junk(1025), Junk(600), Line(Msg.Hello), <<CR, LF>>,
    Line(Junk(3)), <<120, CR, 120, CR, LF>>,
    Junk(1025) \o Line(Junk(3)) \o Line(Msg.Hello) }

NextLine ==
  \/ \E b \in BootTimes : Setup(b, FirmwareCast)
  \/ \E d \in LineDelays, bytes \in LineBytes : Loop(d, bytes, NoButtons, FirmwareCast)
  \/ \E b \in BootTimes, st \in BOOLEAN, mac \in BOOLEAN : BTBegin(b, st, mac)
  \/ \E d \in LineDelays, bytes \in LineBytes : BTLoop(d, bytes, FirmwareCast)

SpecLine == InitClient /\ [][NextLine]_vars

(* SpecClock: the timers of the transport under a host that is silent or   *)
(* sends a keep-alive.                                                     *)

ClockDelays == {0, 1000, 1001, 2000}

ClockBytes == { <<>>, Line(Msg.Hello) }

NextClock ==
  \/ \E b \in BootTimes : Setup(b, FirmwareCast)
  \/ \E d \in ClockDelays, bytes \in ClockBytes : Loop(d, bytes, NoButtons, FirmwareCast)
  \/ \E b \in BootTimes, st \in BOOLEAN, mac \in BOOLEAN : BTBegin(b, st, mac)
  \/ \E d \in ClockDelays, bytes \in ClockBytes : BTLoop(d, bytes, FirmwareCast)

SpecClock == InitClient /\ [][NextClock]_vars

(* SpecDispatch: every kind of message, well-formed and not; the last     *)
(* queue starts with a hello line that lost its opening brace, which is    *)
(* the string "kind" and text after it.                                    *)

DispatchDelays == {3000}

DispatchBytes ==
  { Line(Msg.ModeRun), Line(Msg.ModeBoot), Line(Msg.ModeTypo), Line(Msg.ModeNone),
    Line(Msg.ModeNum), Line(Msg.Track50), Line(Msg.TrackNone), Line(Msg.Servo),
    Line(Msg.Time), Line(Msg.Weather), Line(Msg.Text), Line(Msg.Emotion),
    Line(Msg.EmotionBogus), Line(Msg.LogOn), Line(Msg.LogOff), Line(Msg.Hello),
    Line(Msg.Unknown), Line(Msg.NoKind), Line(Msg.BadTruncated), Line(Msg.BadJunk),
    Line(Msg.BadJunk) \o Line(Msg.ModeRun) \o Line(Msg.Track50),
    Line(Msg.Servo) \o Line(Msg.BadTruncated) \o Line(Msg.LogOn),
    Line(Msg.Text) \o <<CR, LF>> \o Msg.ModeBoot \o <<CR, LF>>,
    Line(Msg.ModeRun) \o Line(Msg.ModeTypo),
    Line(Msg.TrackStr) \o Line(Msg.TrackNone) \o Line(Msg.Text),
    Line(Msg.ServoStr) \o Line(Msg.Text),
    Line(SubSeq(Msg.Hello, 2, Len(Msg.Hello))) \o Line(Msg.Time) }

NextDispatch ==
  \/ \E b \in BootTimes : Setup(b, FirmwareCast)
  \/ \E d \in DispatchDelays, bytes \in DispatchBytes :
        Loop(d, bytes, NoButtons, FirmwareCast)
  \/ \E b \in BootTimes, st \in BOOLEAN, mac \in BOOLEAN : BTBegin(b, st, mac)
  \/ \E d \in DispatchDelays, bytes \in DispatchBytes : BTLoop(d, bytes, FirmwareCast)

SpecDispatch == InitClient /\ [][NextDispatch]_vars

\* C3: the line accumulator of either transport never holds more than 1024
\* bytes, whatever bytes are fed.
LineWithinLimit == Len(client.line_) <= LineLimit

\* C3 is reached where it matters: a run of 1025 bytes arrived on top of a
\* full accumulator, which was cleared by the first of them and is full again
LineFullAfterOverflow ==
  /\ Len(rxTick) = LineLimit + 1
  /\ Len(client.line_) = LineLimit

-----------------------------------------------------------------------------
(* The timers (SpecClock)                                                  *)

\* the call that produced this state reached ESP.restart()
Restarted == HasEvent(trace, "ESP.restart", "")

\* C4: on the serial variant a tick restarts the device exactly when, at that
\* tick, more than 5000 ms have passed since the last byte was read or, if no
\* byte was read since begin(), since begin().
RestartIffSilentSinceMark ==
  [][ (pc = "run" /\ variant = "serial") =>
        ((pc' = "off") <=> (sinceMark + (uptime' - uptime) > WatchdogMs)) ]_vars

\* C4 as the specification words it: on the serial variant a tick restarts the
\* device exactly when more than 5000 ms have passed since the last received
\* byte
RestartIffSilentSinceByte ==
  [][ (pc = "run" /\ variant = "serial") =>
        ((pc' = "off") <=>
           (sinceByte >= 0 /\ sinceByte + (uptime' - uptime) > WatchdogMs)) ]_vars

\* a tick 5001 ms after the last byte, and the restart it made
RestartAt5001 ==
  /\ variant = "serial" /\ pc = "off" /\ Restarted
  /\ sinceByte = WatchdogMs + 1 /\ sinceMark = WatchdogMs + 1

\* C5: on the serial variant, once a byte has been received, a silence of up
\* to 5000 ms has seen no restart and a silence of 5001 ms up to twice the
\* watchdog period has seen exactly one.
RestartExactlyOnce ==
  (variant = "serial" /\ sinceByte >= 0) =>
     /\ sinceByte <= WatchdogMs => restarts = 0
     /\ (sinceByte > WatchdogMs /\ sinceByte <= 2 * WatchdogMs) => restarts = 1

\* the device restarted once after the silence began, came up again and is
\* ticking (it has sent a keep-alive) without a second restart
RunningAfterOneRestart ==
  /\ variant = "serial" /\ pc = "run" /\ restarts = 1
  /\ sinceByte > WatchdogMs /\ sinceByte <= 2 * WatchdogMs
  /\ HasEvent(trace, "sendEvent", "ping")

\* C6: for either line client hasRecentInput is true exactly when a byte was received
\* within the last 3000 ms, hence false while no byte has been received.
RecentInputSinceByte ==
  pc = "run" => (hasRecentInput(World) <=> (sinceByte >= 0 /\ sinceByte < RecentInputMs))

\* the hello payloads of this boot session are one "ready" and then "ping"s
ReadyThenPings ==
  /\ Len(sent) >= 1
  /\ sent[1] = "ready"
  /\ \A i \in 2..Len(sent) : sent[i] = "ping"

\* C7: on the serial variant every boot session sends one "ready", in begin(),
\* before any "ping", and a "ping" leaves more than 2000 ms after the hello
\* before it.
HelloDiscipline ==
  (variant = "serial" /\ pc = "run") =>
     /\ ReadyThenPings
     /\ HasEvent(trace, "sendEvent", "ping") => helloGap > HelloPeriodMs

\* C7 as the specification words it: one "ready" and then "ping"s, and every
\* two consecutive hellos, a "ready" included, at least 2000 ms apart
HelloNeverWithin2000 ==
  (variant = "serial" /\ pc = "run") =>
     /\ ReadyThenPings
     /\ helloGap >= 0 => helloGap >= HelloPeriodMs

\* a third hello of a session, sent 2001 ms after the second
PingAfter2001 ==
  /\ variant = "serial" /\ pc = "run"
  /\ Len(sent) >= 3
  /\ HasEvent(trace, "sendEvent", "ping")
  /\ helloGap = HelloPeriodMs + 1

-----------------------------------------------------------------------------
(* Dispatch (SpecDispatch)                                                 *)

\* the bytes up to and including the first LF of a chunk that has one
FirstLF(bytes) == CHOOSE i \in 1..Len(bytes) :
                     bytes[i] = LF /\ \A j \in 1..(i - 1) : bytes[j] # LF

\* the text of a line as it reaches dispatch
LineText(seg) == SelectSeq(seg, LAMBDA c : c # CR /\ c # LF)

BadLine(seg) == LineText(seg) # <<>> /\ deserializeJson(LineText(seg)).err

\* a chunk without its lines that fail to parse
RECURSIVE GoodOnly(_)
GoodOnly(bytes) ==
  IF \A i \in 1..Len(bytes) : bytes[i] # LF THEN bytes
  ELSE LET i   == FirstLF(bytes)
           seg == SubSeq(bytes, 1, i)
       IN  (IF BadLine(seg) THEN <<>> ELSE seg)
             \o GoodOnly(SubSeq(bytes, i + 1, Len(bytes)))

\* how many lines of a chunk fail to parse
RECURSIVE BadCount(_)
BadCount(bytes) ==
  IF \A i \in 1..Len(bytes) : bytes[i] # LF THEN 0
  ELSE LET i == FirstLF(bytes)
       IN  (IF BadLine(SubSeq(bytes, 1, i)) THEN 1 ELSE 0)
             + BadCount(SubSeq(bytes, i + 1, Len(bytes)))

\* what a message can change: the servo, the UI mode and the logger it
\* switches, the display, the overlay, the expression, the energy state
Device(w) ==
  [ servo |-> w.servo, ui |-> w.ui, logger |-> w.logger, disp |-> w.disp,
    overlay |-> w.overlay, expr |-> w.expr, energy |-> w.energy, menu |-> w.menu ]

\* the call a run makes: loop() in the firmware, BTClient::loop() where a
\* BTClient is driven by itself
CallOf(w, bytes) ==
  IF w.variant = "serial" THEN loop(w, bytes, NoButtons, FirmwareCast)
  ELSE BTClientLoop(w, bytes, FirmwareCast)

JsonErrorsLogged == Len(SelectSeq(trace, LAMBDA x : x.e = "log" /\ x.tag = "JSON error"))

\* C8: a tick that reads lines of which some fail to parse logs one error for
\* each of those, does not restart, and leaves the device (servo angles, UI
\* mode, overlay texts, logging toggle and the rest) as the same tick leaves
\* it when those lines are not sent at all.
BadLinesDropped ==
  [][ (pc = "run" /\ client.line_ = <<>>) =>
        LET d     == uptime' - uptime
            good  == GoodOnly(rxTick')
            clean == CallOf(Entering(d, good), good)
        IN  /\ pc' = "run"
            /\ Device(World') = Device(clean)
            /\ JsonErrorsLogged' = BadCount(rxTick') ]_vars

\* a bad line was logged and the lines after it took effect: the mode message
\* switched to Run and the track message moved the servo
GoodLinesAfterBadLine ==
  /\ rxTick = Line(Msg.BadJunk) \o Line(Msg.ModeRun) \o Line(Msg.Track50)
  /\ HasEvent(trace, "log", "JSON error")
  /\ ui.uiMode = "Run"
  /\ HasEvent(trace, "updateFromError", "")
  /\ servo.curYawDeg = F32(-3, 4)

\* the lines dispatched by the call that produced this state
Dispatched == EventsOf(trace, "handleJson_")

LastDispatched == Dispatched[Len(Dispatched)].line

\* C9: on the serial variant, after a mode message is dispatched the UI mode
\* is Boot for the payload "boot", Run for "run", and Sleep for another
\* string, an absent payload and a payload that is not a string.
ModeMessageSetsMode ==
  (variant = "serial" /\ pc = "run" /\ Dispatched # <<>>) =>
     /\ LastDispatched = Msg.ModeBoot => ui.uiMode = "Boot"
     /\ LastDispatched = Msg.ModeRun => ui.uiMode = "Run"
     /\ LastDispatched \in {Msg.ModeTypo, Msg.ModeNone, Msg.ModeNum} => ui.uiMode = "Sleep"

\* "run" and then "sleep-typo" in one tick: Run was entered and left for Sleep
TypoAfterRunSleeps ==
  /\ variant = "serial"
  /\ rxTick = Line(Msg.ModeRun) \o Line(Msg.ModeTypo)
  /\ HasEvent(trace, "setUIMode", "Run")
  /\ LastDispatched = Msg.ModeTypo
  /\ ui.uiMode = "Sleep"

\* the kinds of the dispatch table
TabulatedKinds ==
  {"time", "weather", "text", "emotion", "servo", "track", "mode", "log", "hello"}

\* the sink call of each kind, as the trace names it
SinkOf(kind) ==
  CASE kind = "time" -> {"setTime"}
    [] kind = "weather" -> {"setWeather"}
    [] kind = "text" -> {"setText"}
    [] kind = "emotion" -> {"em.handle"}
    [] kind = "servo" -> {"setAngles"}
    [] kind = "track" -> {"updateFromError"}
    [] kind = "mode" -> {"setUIMode"}
    [] kind = "log" -> {"enableSerialLogging"}
    [] OTHER -> {}

AllSinks ==
  {"setTime", "setWeather", "setText", "em.handle", "setAngles", "updateFromError",
   "setUIMode", "enableSerialLogging"}

\* the events of the dispatch that starts at trace[i]: up to the next dispatch
DispatchEnd(i) ==
  IF \E j \in (i + 1)..Len(trace) : trace[j].e = "handleJson_"
  THEN (CHOOSE j \in (i + 1)..Len(trace) :
          /\ trace[j].e = "handleJson_"
          /\ \A k \in (i + 1)..(j - 1) : trace[k].e # "handleJson_") - 1
  ELSE Len(trace)

\* C10: on either transport a message of a tabulated kind is not logged as
\* unknown, and the only sink called for it is the one of its kind (none for
\* hello).
TabulatedKindsRouted ==
  \A i \in 1..Len(trace) :
    (trace[i].e = "handleJson_" /\ ~deserializeJson(trace[i].line).err) =>
       LET kind == AsCStr(deserializeJson(trace[i].line).doc.kind, "")
           evs  == {trace[k] : k \in (i + 1)..DispatchEnd(i)}
       IN  kind \in TabulatedKinds =>
             /\ \A x \in evs : ~(x.e = "log" /\ x.tag = "Unknown kind")
             /\ {x.e : x \in evs} \cap AllSinks = SinkOf(kind)

-----------------------------------------------------------------------------
(* Tracking                                                                *)

\* C11: on the firmware as setup() leaves it (centered, yaw gain 0.06,
\* smoothing 0.25, deadzone 10, yaw inverted, limits -70..+70), a tick that
\* reads the track message dx_px=50, dy_px=0, dt_ms=10 has effective yaw
\* error -50 and target -3.0 degrees, and ends with yaw -0.75 and pitch 0.
Track50FromCenter ==
  [][ ( /\ pc = "run" /\ variant = "serial"
        /\ servo.cfg = SetupTuning
        /\ servo.curYawDeg = FZero /\ servo.curPitchDeg = FZero
        /\ rxTick' = Line(Msg.Track50) ) =>
      LET c  == servo.cfg
          ex == AxisError(FromInt(50), c.invertYaw, c.deadzoneYawPx)
      IN  /\ ex = FromInt(-50)
          /\ AxisTarget(servo.curYawDeg, ex, c.kpYawDegPerPx,
                        c.yawMinDeg, c.yawMaxDeg, contract) = Deg(-3)
          /\ servo'.curYawDeg = F32(-3, 4)
          /\ servo'.curPitchDeg = FZero ]_vars

\* the tick that read that message from the centered state has run
Track50Applied ==
  /\ variant = "serial" /\ pc = "run"
  /\ rxTick = Line(Msg.Track50)
  /\ HasEvent(trace, "updateFromError", "")
  /\ servo.cfg = SetupTuning
  /\ servo.curYawDeg = F32(-3, 4) /\ servo.curPitchDeg = FZero

\* C12: an updateFromError call whose errors are both within the dead zones
\* (|dx| <= deadzoneYawPx and |dy| <= deadzonePitchPx) leaves the yaw and the
\* pitch angle as they were, from every state the controller's API reaches.
DeadzoneNoMotion ==
  [][ \A e \in ErrorInputs, ub \in NegCastOutcomes :
        ( /\ ops >= 1 /\ ops' = ops + 1
          /\ FLe(fabsf(e[1]), servo.cfg.deadzoneYawPx)
          /\ FLe(fabsf(e[2]), servo.cfg.deadzonePitchPx)
          /\ servo' = updateFromError(servo, e[1], e[2], contract, ub) ) =>
        /\ servo'.curYawDeg = servo.curYawDeg
        /\ servo'.curPitchDeg = servo.curPitchDeg ]_vars

\* the sign of a - b
Sgn(a, b) == IF FLt(b, a) THEN 1 ELSE IF FLt(a, b) THEN -1 ELSE 0

\* one axis over two updates with the same error: angle a0, then a1, then a2,
\* under limits lo..hi and with target the clamped target of the first update
AxisMonotoneTowards(a0, a1, a2, target, lo, hi) ==
  /\ Sgn(a1, a0) * Sgn(a2, a1) >= 0
  /\ FLe(fabsf(FSub(target, a1)), fabsf(FSub(target, a0)))
  /\ FLe(lo, a1) /\ FLe(a1, hi)
  /\ FLe(lo, a2) /\ FLe(a2, hi)

\* C13: from every state the controller's API reaches, an error input given
\* twice in a row moves each axis in one direction only, towards the clamped
\* target, and every angle it produces lies within the limits of the axis.
RepeatedErrorMonotone ==
  ops >= 1 =>
    \A e \in ErrorInputs, ub \in NegCastOutcomes :
      LET c  == servo.cfg
          s1 == updateFromError(servo, e[1], e[2], contract, ub)
          s2 == updateFromError(s1, e[1], e[2], contract, ub)
          ty == AxisTarget(servo.curYawDeg,
                           AxisError(e[1], c.invertYaw, c.deadzoneYawPx),
                           c.kpYawDegPerPx, c.yawMinDeg, c.yawMaxDeg, contract)
          tp == AxisTarget(servo.curPitchDeg,
                           AxisError(e[2], c.invertPitch, c.deadzonePitchPx),
                           c.kpPitchDegPerPx, c.pitchMinDeg, c.pitchMaxDeg, contract)
      IN  /\ AxisMonotoneTowards(servo.curYawDeg, s1.curYawDeg, s2.curYawDeg, ty,
                                 c.yawMinDeg, c.yawMaxDeg)
          /\ AxisMonotoneTowards(servo.curPitchDeg, s1.curPitchDeg, s2.curPitchDeg, tp,
                                 c.pitchMinDeg, c.pitchMaxDeg)

-----------------------------------------------------------------------------
(* SpecUI: the firmware under mode messages, other messages, silence and   *)
(* the three buttons.                                                      *)

UIDelays == {2500}

UIBytes ==
  { <<>>, Line(Msg.Hello), Line(Msg.ModeRun), Line(Msg.ModeBoot), Line(Msg.ModeTypo),
    Line(Msg.Text), Line(Msg.Track50),
    Line(Msg.Text) \o <<CR, LF>> \o Line(Msg.ModeRun) }

Buttons == {NoButtons, HoldB, PressA, PressB, PressC}

NextUI ==
  \/ \E b \in BootTimes : Setup(b, FirmwareCast)
  \/ \E d \in UIDelays, bytes \in UIBytes, btn \in Buttons :
        Loop(d, bytes, btn, FirmwareCast)

SpecUI == InitSerial /\ [][NextUI]_vars

\* a dispatched line that parses to a message of kind mode
IsModeLine(l) ==
  /\ ~deserializeJson(l).err
  /\ AsCStr(deserializeJson(l).doc.kind, "") = "mode"

\* the mode messages a call dispatched, in order
ModeLines(tr) == SelectSeq(tr, LAMBDA x : x.e = "handleJson_" /\ IsModeLine(x.line))

\* C14: the UI mode is Sleep when the firmware starts and after setup(); a
\* loop() call that dispatches no mode message leaves it as it was, whatever
\* time passed, whatever the buttons, the menu, the rendering, the energy
\* policy and the other messages did; a call that dispatches mode messages
\* leaves the mode the last of them asks for.
ModeOnlyByModeMessage ==
  /\ ui.uiMode = "Sleep"
  /\ [][ /\ pc = "off" => ui'.uiMode = "Sleep"
         /\ pc = "run" =>
              LET ms == ModeLines(trace')
              IN  IF ms = <<>> THEN ui'.uiMode = ui.uiMode
                  ELSE ui'.uiMode =
                         ModeOf(AsCStr(deserializeJson(ms[Len(ms)].line).doc.payload, "")) ]_vars

\* a call in Run that read a text message, drew a frame and evaluated the
\* energy policy, and the mode is still Run
RunKeptThroughTick ==
  /\ pc = "run" /\ ui.uiMode = "Run"
  /\ rxTick = Line(Msg.Text)
  /\ HasEvent(trace, "setText", "hi")
  /\ HasEvent(trace, "render", "run")
  /\ HasEvent(trace, "energy.update", "")
  /\ ModeLines(trace) = <<>>

\* the entries into Boot or Run a call made, as indices into its trace
AwakeEntries(tr) ==
  {i \in 1..Len(tr) : tr[i].e = "setUIMode" /\ tr[i].tag # "Sleep"}

\* C15: Across any sequence of mode commands Logger::init runs exactly once per
\* process lifetime: it has not run after a reset and while the mode has only
\* been Sleep, a call of loop() runs it once, directly after the first entry
\* into Boot or Run, when it has not run before, and no later call runs it again.
LoggerInitOnce ==
  /\ logger.inits = 0
  /\ [][ /\ pc = "off" =>
              logger'.inits = 0 /\ EventsOf(trace', "Logger.init") = <<>>
         /\ pc = "run" =>
              LET entries == AwakeEntries(trace')
                  first   == logger.inits = 0 /\ entries # {}
              IN  /\ logger'.inits = (IF first THEN 1 ELSE logger.inits)
                  /\ Len(EventsOf(trace', "Logger.init")) = (IF first THEN 1 ELSE 0)
                  /\ first =>
                       LET i == CHOOSE j \in entries : \A k \in entries : j <= k
                       IN  trace'[i + 1].e = "Logger.init" ]_vars

\* a call of loop() that entered Boot after the logger had been initialized by
\* an earlier entry, and did not initialize it again
BootEnteredWithLoggerReady ==
  /\ pc = "run"
  /\ logger.inits = 1
  /\ HasEvent(trace, "setUIMode", "Boot")
  /\ EventsOf(trace, "Logger.init") = <<>>
  /\ ui.uiMode = "Boot"

\* the calls trace[i+1..] holds, by name and argument, up to n of them
CallsAfter(tr, i, n) ==
  [k \in 1..n |-> IF i + k <= Len(tr) THEN <<tr[i + k].e, tr[i + k].tag>>
                  ELSE <<"", "">>]

\* the display and logger calls that belong to the setUIMode call at trace[i]
EntryCalls(tr, i) ==
  IF tr[i].tag = "Sleep" THEN CallsAfter(tr, i, 3)
  ELSE IF i < Len(tr) /\ tr[i + 1].e = "Logger.init" THEN CallsAfter(tr, i + 2, 3)
  ELSE CallsAfter(tr, i, 3)

\* whether a call after the setUIMode block at trace[i] wrote the display again
DisplayWrittenAfter(tr, i) ==
  LET from == IF tr[i].tag # "Sleep" /\ i < Len(tr) /\ tr[i + 1].e = "Logger.init"
              THEN i + 6 ELSE i + 4
  IN  \E j \in from..Len(tr) :
        tr[j].e \in {"setBrightness", "Display.sleep", "Display.wakeup",
                     "enableScreenLogging"}

\* C16: Every transition into Sleep disables screen logging, sets brightness 0
\* and puts the panel to sleep; every transition into Boot or Run re-enables
\* screen logging, wakes the panel and sets the default brightness 20.  The
\* display and the logger show that state unless a later call of the same tick
\* writes them again.
ModeEntryEffects ==
  \A i \in 1..Len(trace) :
    trace[i].e = "setUIMode" =>
      /\ trace[i].tag = "Sleep" =>
           /\ EntryCalls(trace, i) = << <<"enableScreenLogging", "off">>,
                                        <<"setBrightness", "0">>,
                                        <<"Display.sleep", "">> >>
           /\ ~DisplayWrittenAfter(trace, i) =>
                ~logger.screen /\ disp.brightness = 0 /\ disp.asleep
      /\ trace[i].tag # "Sleep" =>
           /\ EntryCalls(trace, i) = << <<"enableScreenLogging", "on">>,
                                        <<"Display.wakeup", "">>,
                                        <<"setBrightness", "20">> >>
           /\ ~DisplayWrittenAfter(trace, i) =>
                logger.screen /\ disp.brightness = FullBrightness /\ ~disp.asleep

\* a call of loop() that entered Run and, with the next line, Sleep: both
\* blocks of calls are in its trace and the display is left powered down
RunThenSleepEntered ==
  /\ pc = "run"
  /\ \E i, j \in 1..Len(trace) :
       /\ i < j
       /\ trace[i].e = "setUIMode" /\ trace[i].tag = "Run"
       /\ trace[j].e = "setUIMode" /\ trace[j].tag = "Sleep"
  /\ ~logger.screen /\ disp.brightness = 0 /\ disp.asleep

\* the menu calls the buttons made during a call of loop()
MenuEvents(tr) ==
  SelectSeq(tr, LAMBDA x : x.e \in {"menu.begin", "menu.navPrev", "menu.navNext",
                                    "menu.select"})

\* the frames and overlay ticks of a call of loop()
RenderEvents(tr) == SelectSeq(tr, LAMBDA x : x.e \in {"render", "overlay.tick"})

\* C17: The face/overlay rendering tick and menu navigation are active only in
\* Run: a call of loop() that the buttons reach in Sleep or Boot makes no menu
\* call, a call that ends in Boot draws at most the boot frame, and a call that
\* ends in Sleep draws nothing.
RenderAndMenuOnlyInRun ==
  [][ pc = "run" /\ pc' = "run" =>
        /\ ui.uiMode # "Run" => MenuEvents(trace') = <<>>
        /\ ui'.uiMode = "Sleep" => RenderEvents(trace') = <<>>
        /\ ui'.uiMode = "Boot" =>
             \A i \in 1..Len(trace') :
               trace'[i].e \in {"render", "overlay.tick"} =>
                 trace'[i].e = "render" /\ trace'[i].tag = "boot" ]_vars

\* the number of line feeds among the bytes of a tick
CountLF(bytes, n) == Cardinality({i \in 1..n : bytes[i] = LF})

\* C18: A call of loop() that starts and ends in Sleep draws nothing, reads the
\* bytes that wait and dispatches each completed line, and evaluates the energy
\* policy (EnergyManager::update), whose last step is the timed suspend.
SleepTickStillEvaluatesEnergy ==
  [][ ( pc = "run" /\ pc' = "run" /\ ui.uiMode = "Sleep" /\ ui'.uiMode = "Sleep" ) =>
        /\ RenderEvents(trace') = <<>>
        /\ Len(EventsOf(trace', "handleJson_")) = CountLF(rxTick', Len(rxTick'))
        /\ HasEvent(trace', "energy.update", "") ]_vars

-----------------------------------------------------------------------------
(* SpecEnergy: EnergyManager by itself, called as main.cpp calls it        *)

\* millis() at the call of begin(): shortly after a reset, and 25.5 s before
\* the counter wraps
EnergyStartTimes == { U32(60), [hi |-> 65535, lo |-> 40000] }

\* the time between two calls, in ms
EnergyDelays == {1000, 30000, 30001, 61000}

\* the state a call of update() starts in, d ms after the previous call
EnteringEnergy(d) == [Elapse(World, d) EXCEPT !.trace = <<>>, !.ops = ops + 1]

ApiEnergyBegin(t0) ==
  /\ ops = 0
  /\ Commit(EnergyBegin([World EXCEPT !.now = t0, !.trace = <<>>, !.ops = 1]))

ApiEnergyUpdate(d, recentActivity) ==
  /\ ops \in 1..(MaxOps - 1)
  /\ Commit(EnergyUpdate(EnteringEnergy(d), recentActivity))

NextEnergy ==
  \/ \E t0 \in EnergyStartTimes : ApiEnergyBegin(t0)
  \/ \E d \in EnergyDelays, a \in BOOLEAN : ApiEnergyUpdate(d, a)

SpecEnergy == InitSerial /\ [][NextEnergy]_vars

\* C19: In one evaluation of the energy policy the dim step is the alternative
\* to the activity step: after update(true) the dimmed flag is false and the
\* brightness is full.
ActivityNeverDims ==
  [][ \A d \in EnergyDelays :
        ( ops >= 1 /\ ops' = ops + 1
          /\ World' = EnergyUpdate(EnteringEnergy(d), TRUE) ) =>
        ~energy'.screenDimmed_ /\ disp'.brightness = FullBrightness ]_vars

\* C20: An evaluation that sees an idle time above 60 s suspends once, for
\* 5 s, and returns with full brightness, the dimmed flag cleared and the idle
\* clock at the time of resumption, all in the one step the evaluation is; an
\* evaluation that sees less does not suspend.
SuspendOnceThenRestored ==
  [][ \A d \in EnergyDelays, a \in BOOLEAN :
        LET w    == EnteringEnergy(d)
            idle == Sub32(w.now, energy.lastActivity_)
        IN  ( ops >= 1 /\ ops' = ops + 1 /\ World' = EnergyUpdate(w, a) ) =>
              IF Gt32(idle, SLEEP_TIMEOUT_MS)
              THEN /\ Len(EventsOf(trace', "light_sleep")) = 1
                   /\ now' = Add32(w.now, LightSleepMs)
                   /\ uptime' = w.uptime + LightSleepMs
                   /\ disp'.brightness = FullBrightness
                   /\ ~energy'.screenDimmed_
                   /\ energy'.lastActivity_ = now'
                   /\ energy'.lastActivity_ # energy.lastActivity_
              ELSE /\ EventsOf(trace', "light_sleep") = <<>>
                   /\ now' = w.now ]_vars

\* an evaluation without activity, 61 s after the last one, that dimmed the
\* screen, suspended and restored it
SuspendedAfter61s ==
  /\ ops >= 2
  /\ HasEvent(trace, "energy.update", "")
  /\ HasEvent(trace, "setBrightness", "5")
  /\ Len(EventsOf(trace, "light_sleep")) = 1
  /\ trace[Len(trace)] = Event("setBrightness", "20", <<>>)
  /\ disp.brightness = FullBrightness
  /\ ~energy.screenDimmed_
  /\ energy.lastActivity_ = now

-----------------------------------------------------------------------------
(* SpecNap: the serial firmware over sessions long enough for the 60 s     *)
(* idle limit of EnergyManager to be passed                               *)

\* the longest a long session lasts, in ms since the reset
MaxSession == 70000

\* one call of loop() in a long session
LongLoop(d, bytes, btn, ub) ==
  /\ pc = "run"
  /\ uptime + d <= MaxSession
  /\ Commit(loop(Entering(d, bytes), bytes, btn, ub))

NapDelays == {2500, 5000}

NapBytes == { <<>>, Line(Msg.Hello), Line(Msg.ModeRun), Line(Msg.ModeTypo) }

NextNap ==
  \/ Setup(60, FirmwareCast)
  \/ \E d \in NapDelays, bytes \in NapBytes : LongLoop(d, bytes, NoButtons, FirmwareCast)

SpecNap == InitSerial /\ [][NextNap]_vars

\* the time from the return of a suspending loop() call to the next call, in ms
NapFollowUps == {1, 20, 2500}

\* whether a call of loop() handed the line to handleJson_
Handled(tr, l) == \E i \in 1..Len(tr) : tr[i].e = "handleJson_" /\ tr[i].line = l

\* C21: A timed suspend does not cost the host its session: the call of loop()
\* that follows a call which suspended does not restart the device, and it
\* dispatches the line the host sent during or right after the suspend.
SuspendKeepsSession ==
  ( pc = "run" /\ HasEvent(trace, "light_sleep", "") ) =>
    \A d \in NapFollowUps :
      LET bytes == Line(Msg.Hello)
          w     == loop(Entering(d, bytes), bytes, NoButtons, FirmwareCast)
      IN  w.pc = "run" /\ Handled(w.trace, Msg.Hello)

\* the complete lines among acc \o bytes: the runs of bytes that a line feed ends
QueuedLines(acc, bytes) ==
  LET b        == acc \o bytes
      ends     == {i \in 1..Len(b) : b[i] = LF}
      end(k)   == CHOOSE i \in ends : Cardinality({j \in ends : j < i}) = k - 1
      start(k) == IF k = 1 THEN 1 ELSE end(k - 1) + 1
  IN  [k \in 1..Cardinality(ends) |-> SubSeq(b, start(k), end(k) - 1)]

\* a line without its trailing carriage return
TrimCR(l) == IF Len(l) > 0 /\ l[Len(l)] = CR THEN SubSeq(l, 1, Len(l) - 1) ELSE l

TrimAll(ls) == [i \in 1..Len(ls) |-> TrimCR(ls[i])]

\* the lines a call handed to handleJson_, in the order of the calls
DispatchedLines(tr) ==
  LET hs == EventsOf(tr, "handleJson_") IN [i \in 1..Len(hs) |-> hs[i].line]

\* every handleJson_ call of the trace comes before every frame and overlay tick
DispatchBeforeRender(tr) ==
  \A i, j \in 1..Len(tr) :
    (tr[i].e = "handleJson_" /\ tr[j].e \in {"render", "overlay.tick"}) => i < j

\* C22 as stated: every call of loop() dispatches every complete line of the
\* receive queue, in the order received and one dispatch per line, before it
\* renders.
DrainsEveryLineInOrder ==
  [][ pc = "run" =>
        /\ DispatchedLines(trace') = TrimAll(QueuedLines(client.line_, rxTick'))
        /\ DispatchBeforeRender(trace') ]_vars

\* lines of at most 1024 bytes with no carriage return before the last byte
Framed(ls) ==
  \A k \in 1..Len(ls) :
    /\ Len(ls[k]) <= LineLimit
    /\ \A i \in 1..(Len(ls[k]) - 1) : ls[k][i] # CR

\* C22: a call of loop() that the watchdog does not end dispatches every
\* complete line of the receive queue that is not empty, in the order received
\* and one dispatch per line, before it renders (for lines of at most 1024
\* bytes whose only carriage return is the trailing one); a call that the
\* watchdog ends dispatches nothing.
DrainsNonEmptyLinesInOrder ==
  [][ ( pc = "run" /\ Framed(QueuedLines(client.line_, rxTick')) ) =>
        IF pc' = "run"
        THEN /\ DispatchedLines(trace') =
                  SelectSeq(TrimAll(QueuedLines(client.line_, rxTick')),
                            LAMBDA l : l # <<>>)
             /\ DispatchBeforeRender(trace')
        ELSE DispatchedLines(trace') = <<>> ]_vars

\* a call of loop() that read a text line, an empty line and a mode line,
\* dispatched the two in that order and then drew the Run frame
TwoLinesThenFrame ==
  /\ pc = "run"
  /\ rxTick = Line(Msg.Text) \o <<CR, LF>> \o Line(Msg.ModeRun)
  /\ DispatchedLines(trace) = <<Msg.Text, Msg.ModeRun>>
  /\ HasEvent(trace, "render", "run")

\* the lines that are not empty
NonEmpty(ls) == SelectSeq(ls, LAMBDA l : l # <<>>)

\* C23: On a newline the transport hands the dispatcher exactly the bytes
\* accumulated since the previous newline, less a trailing carriage return
\* only, and resets the accumulator: the calls of one loop() carry the queued
\* lines with their inner carriage returns, and a queue that ends in a newline
\* leaves the accumulator empty.
HandsLineLessTrailingCR ==
  [][ ( /\ pc = "run" /\ pc' = "run"
        /\ \A k \in 1..Len(QueuedLines(client.line_, rxTick')) :
             Len(QueuedLines(client.line_, rxTick')[k]) <= LineLimit ) =>
        /\ DispatchedLines(trace') =
             NonEmpty(TrimAll(QueuedLines(client.line_, rxTick')))
        /\ ( rxTick' # <<>> /\ rxTick'[Len(rxTick')] = LF ) =>
             client'.line_ = <<>> ]_vars

\* C24: A line of more than 1024 bytes is discarded whole: a call of loop()
\* dispatches the queued lines of at most 1024 bytes and no part of a longer
\* one, and the line that follows a longer one is dispatched intact (for
\* queues without carriage returns).
OversizedLineDiscarded ==
  [][ ( pc = "run" /\ pc' = "run" /\ \A i \in 1..Len(rxTick') : rxTick'[i] # CR ) =>
        DispatchedLines(trace') =
          NonEmpty(SelectSeq(QueuedLines(client.line_, rxTick'),
                             LAMBDA l : Len(l) <= LineLimit)) ]_vars

\* the payloads of the log messages a call dispatched, "off" standing for an
\* absent or non-string payload as in the handler
LogPayloads(tr) ==
  LET hs == SelectSeq(EventsOf(tr, "handleJson_"),
                      LAMBDA x : /\ ~deserializeJson(x.line).err
                                 /\ AsCStr(deserializeJson(x.line).doc.kind, "") = "log")
  IN  [i \in 1..Len(hs) |-> AsCStr(deserializeJson(hs[i].line).doc.payload, "off")]

\* C25: A log message with payload "on" enables the emission of diagnostic
\* lines on the serial channel and any other log message disables it, and a
\* call of loop() that starts and ends with the emission disabled writes no
\* diagnostic line to the serial channel (Logger::log writes none).
SerialQuietUnlessLogOn ==
  [][ ( variant = "serial" /\ pc = "run" /\ pc' = "run" ) =>
        LET ps == LogPayloads(trace')
        IN  /\ logger'.serial =
                 (IF ps = <<>> THEN logger.serial ELSE ps[Len(ps)] = "on")
            /\ ( ~logger.serial /\ ~logger'.serial ) =>
                 EventsOf(trace', "log") = <<>> ]_vars

\* the documents of the lines a call dispatched that parsed and have the kind
DocsOfKind(tr, kind) ==
  LET hs == SelectSeq(EventsOf(tr, "handleJson_"),
                      LAMBDA x : /\ ~deserializeJson(x.line).err
                                 /\ AsCStr(deserializeJson(x.line).doc.kind, "") = kind)
  IN  [i \in 1..Len(hs) |-> deserializeJson(hs[i].line).doc]

\* the document has no number under either name: the payload is not an
\* object, or the members are absent or not numbers
NoNumber(d, a, b) == Member(d, a).t # "num" /\ Member(d, b).t # "num"

\* C26: A track message (serial handler) or servo message (Bluetooth handler)
\* whose numeric fields are absent or wrong-typed is not rejected and its
\* fields count as 0: every such message reaches the servo controller, a call
\* of loop() whose track messages all lack usable fields leaves both angles as
\* they were, one whose last servo message lacks them commands 0/0, and the
\* lines after such a message are dispatched.
UnusableFieldsCountAsZero ==
  [][ ( pc = "run" /\ pc' = "run" ) =>
        LET tracks == DocsOfKind(trace', "track")
            servos == DocsOfKind(trace', "servo")
        IN  /\ variant = "serial" =>
                 /\ Len(EventsOf(trace', "updateFromError")) = Len(tracks)
                 /\ ( \A i \in 1..Len(tracks) : NoNumber(tracks[i], "dx_px", "dy_px") ) =>
                      /\ servo'.curYawDeg = servo.curYawDeg
                      /\ servo'.curPitchDeg = servo.curPitchDeg
            /\ variant = "bt" =>
                 /\ Len(EventsOf(trace', "setAngles")) = Len(servos)
                 /\ ( servos # <<>> /\ NoNumber(servos[Len(servos)], "yaw", "pitch") ) =>
                      servo'.curYawDeg = FZero /\ servo'.curPitchDeg = FZero
            /\ Len(EventsOf(trace', "handleJson_")) =
                 Len(NonEmpty(TrimAll(QueuedLines(client.line_, rxTick')))) ]_vars

\* a serial call that dispatched two track messages without usable fields and
\* the text line after them, with the yaw off centre before and after
FieldlessTracksKeptYaw ==
  /\ variant = "serial" /\ pc = "run"
  /\ rxTick = Line(Msg.TrackStr) \o Line(Msg.TrackNone) \o Line(Msg.Text)
  /\ Len(EventsOf(trace, "updateFromError")) = 2
  /\ HasEvent(trace, "setText", "hi")
  /\ servo.curYawDeg = F32(-3, 4)

\* C27: The two writers of the display power do not race: in every reachable
\* state the dimmed flag of the energy manager is true exactly when the
\* brightness last written to the display is the dimmed level.
DimmedFlagMatchesBrightness ==
  energy.screenDimmed_ <=> (disp.brightness = DimBrightness)

\* C28: A call of loop() that dispatches no servo and no track message (only
\* time, weather, text, emotion, mode, log, hello, unknown kinds or lines that
\* do not parse) leaves the servo controller as it was: both angles, both
\* PWM duty cycles, the tuning.
OtherLinesLeaveServo ==
  [][ ( /\ pc = "run"
        /\ DocsOfKind(trace', "track") = <<>>
        /\ DocsOfKind(trace', "servo") = <<>> ) =>
        servo' = servo ]_vars

\* a call that dispatched an emotion message while the yaw was off centre
\* and left the yaw and its duty cycle there
EmotionLeftYawOffCentre ==
  /\ pc = "run"
  /\ rxTick = Line(Msg.Emotion)
  /\ HasEvent(trace, "em.handle", "Happy")
  /\ expr = "Happy"
  /\ servo.curYawDeg = F32(-3, 4)
  /\ servo.dutyYaw = pulseToDuty(_angleToPulseUs(servo.cfg, F32(-3, 4), FirmwareCast))

\* C29: In every state in which the UI mode is Sleep, the state setup() leaves
\* included, the display brightness is 0.
SleepMeansDark ==
  ( pc = "run" /\ ui.uiMode = "Sleep" ) => disp.brightness = 0

\* C30: An evaluation of the energy policy with activity observed never enters
\* the timed suspend.  loop() passes recentActivity = true in every
\* evaluation it makes, so no call of loop() that evaluates the policy holds a
\* light sleep, however long the mode stayed in Sleep before.
ActiveEvaluationNeverSuspends ==
  ( pc = "run" /\ HasEvent(trace, "energy.update", "") ) =>
    ~HasEvent(trace, "light_sleep", "")

\* the duty an axis at the angle would be given under the tuning, for one of
\* the outcomes the pulse conversion can have
DutyFor(cfg, angleDeg, trimDeg, duty) ==
  \E ub \in NegCastOutcomes :
    duty = pulseToDuty(_angleToPulseUs(cfg, FAdd(angleDeg, trimDeg), ub))

\* C31: After every operation of the servo controller (begin, center,
\* setAngles, updateFromError, setTuning) the duty cycle last written to each
\* PWM channel is the duty computed from the axis's current angle plus trim
\* under the tuning in force.
DutyMatchesAngle ==
  ops >= 1 =>
    /\ DutyFor(servo.cfg, servo.curYawDeg, servo.cfg.trimYawDeg, servo.dutyYaw)
    /\ DutyFor(servo.cfg, servo.curPitchDeg, servo.cfg.trimPitchDeg, servo.dutyPitch)

-----------------------------------------------------------------------------
(* SpecWrap: SerialClient and EnergyManager by themselves, begun as the    *)
(* end of setup() begins them, shortly after a reset and shortly before    *)
(* millis() wraps                                                          *)

\* millis() at energy.begin(): 60 ms, and 1050 ms before the counter wraps,
\* so that ser.begin() stamps its clocks 1000 ms before the wrap
WrapStartTimes == { U32(60), [hi |-> 65535, lo |-> 64486] }

WrapDelays == {1000, 2000, 2001, 2999, 3000, 5000, 5001}

\* the time before a call of energy.update(), in ms: an evaluation that comes
\* first after the two begin() calls, which take 50 ms, finds the idle clock
\* 50 ms older than this, at 30000 and 60000 ms for the last two
WrapEnergyDelays == EnergyDelays \cup {29950, 59950}

ApiWrapBegin(t0) ==
  /\ ops = 0
  /\ Commit([SerialClientBegin(EnergyBegin(
               [World EXCEPT !.now = t0, !.trace = <<>>, !.ops = 1]))
             EXCEPT !.pc = "run"])

ApiClientLoop(d, bytes) ==
  /\ ops \in 1..(MaxOps - 1)
  /\ pc = "run"
  /\ Commit(SerialClientLoop([EnteringEnergy(d) EXCEPT !.rxTick = bytes],
                             bytes, FirmwareCast))

\* energy.update() in a session that runs: after ESP.restart() nothing runs
\* on the state of the session that ended
ApiWrapEnergyUpdate(d, recentActivity) ==
  /\ pc = "run"
  /\ ApiEnergyUpdate(d, recentActivity)

NextWrap ==
  \/ \E t0 \in WrapStartTimes : ApiWrapBegin(t0)
  \/ \E d \in WrapDelays, bytes \in ClockBytes : ApiClientLoop(d, bytes)
  \/ \E d \in WrapEnergyDelays, a \in BOOLEAN : ApiWrapEnergyUpdate(d, a)

SpecWrap == InitSerial /\ [][NextWrap]_vars

\* C32: The keep-alive, watchdog, hasRecentInput and idle-time comparisons are
\* right across a wrap of millis(): a call of SerialClient::loop() sends the ping
\* exactly if more than 2000 ms passed since the last hello, restarts exactly
\* if more than 5000 ms passed since lastRecv_ was stamped, hasRecentInput is
\* true exactly if fewer than 3000 ms passed since then, and an energy
\* evaluation that comes idle + d ms after the idle clock was set suspends
\* exactly if idle + d exceeds 60000 ms (and, without activity and not yet
\* dimmed, dims exactly if it exceeds 30000 ms), wherever the counter stands
\* and also when the clock was set before the wrap and the evaluation comes
\* after it.  The idle time before the call is known where the counter has
\* advanced by it since the stamp: 0 right after a stamp, and the time since
\* begin() while no evaluation has stamped the clock again.
ElapsedTimesSurviveWrap ==
  [][ /\ \A d \in WrapDelays, bytes \in ClockBytes :
           LET w == [EnteringEnergy(d) EXCEPT !.rxTick = bytes]
           IN  ( pc = "run" /\ ops >= 1 /\ ops' = ops + 1
                 /\ World' = SerialClientLoop(w, bytes, FirmwareCast) ) =>
                 /\ HasEvent(trace', "sendEvent", "ping") <=> (w.sinceHello > HelloPeriodMs)
                 /\ (pc' = "off") <=> (w.sinceMark > WatchdogMs)
                 /\ hasRecentInput(w) <=> (w.sinceMark < RecentInputMs)
      /\ \A d \in WrapEnergyDelays, a \in BOOLEAN, idle \in {0, uptime} :
           ( pc = "run" /\ ops >= 1 /\ ops' = ops + 1
             /\ Add32(energy.lastActivity_, idle) = now
             /\ World' = EnergyUpdate(EnteringEnergy(d), a) ) =>
             /\ HasEvent(trace', "light_sleep", "") <=> (idle + d > SLEEP_TIMEOUT_MS)
             /\ ( ~a /\ ~energy.screenDimmed_ ) =>
                  ( HasEvent(trace', "setBrightness", "5")
                      <=> (idle + d > DISPLAY_TIMEOUT_MS) )
    ]_vars

\* both clocks stamped 1000 ms and 1050 ms before the wrap; a call of
\* SerialClient::loop() 2001 ms later, after the wrap, sent the ping and did
\* not restart; an evaluation without activity 30000 ms after that, 32051 ms
\* after the idle clock was set, dimmed the screen and did not suspend
PingAndDimAcrossWrap ==
  /\ pc = "run" /\ ops = 3
  /\ client.lastRecv_ = [hi |-> 65535, lo |-> 64536]
  /\ client.lastHello_ = U32(1001)
  /\ helloGap = 2001
  /\ energy.lastActivity_ = [hi |-> 65535, lo |-> 64486]
  /\ now = U32(31001)
  /\ uptime = 32051
  /\ HasEvent(trace, "setBrightness", "5")
  /\ energy.screenDimmed_
  /\ ~HasEvent(trace, "light_sleep", "")

====
